---- MODULE Spec2Model ----
(***************************************************************************)
(* Precompile chips of the zkVM prover (morph-l2/sp1): trace generation,   *)
(* inclusion test and constraint evaluation of the Bn254MulAdd,            *)
(* Bn254ScalarMulAdd, Bn254ScalarMac, MemCopy32/64 and Poseidon chips, and *)
(* the guest-side entry point of the multiply-accumulate precompile.       *)
(*                                                                         *)
(* Numbers are scaled so that TLC can enumerate them: a byte has BYTE_BASE *)
(* values instead of 256, the scalar modulus is MODULUS instead of the     *)
(* 254-bit BN254 modulus, the trace field has FIELD_ORDER elements.  Word  *)
(* counts, round counts, column layouts and the Poseidon constant tables   *)
(* are those of the source.                                                *)
(***************************************************************************)
EXTENDS Integers, Sequences, FiniteSets, TLC

VARIABLES
    chip,              \* the chip whose generate_trace runs on the shard
    input,             \* the input ExecutionRecord: events of the chip's kind, shape hint
    is_included,       \* what chip.included(input) returned, None before the call
    pc,                \* "included" before the inclusion test, then the position
                       \* inside generate_trace
    idx,               \* loop index (event, chunk or row), 1-based
    rows,              \* the rows vector / the trace matrix once it is built
    new_byte_lookup_events, \* the local byte-lookup buffer of generate_trace
    rows_and_records,  \* Bn254MulAdd: per-chunk (rows, records) pairs
    output,            \* byte-lookup events of the output ExecutionRecord
    state,             \* Poseidon: the running state of the current event
    round,             \* Poseidon: the round index of the current event
    guest,             \* guest memory and position of sys_bn254_muladd
    first_trace,       \* the matrix and verdict of the first generate_trace run on
                       \* this input, None until a second run is started
    rt,                \* the executor: clocks, call frame, ExecutionRecord, outcome
    codec,             \* an integer or word array going through the byte conversions
    plonk,             \* one call of PlonkVerifier::verify: inputs, position, outcome
    parked             \* the locals of a second generate_trace call on the same shard
                       \* while it is not the one taking a step, None when there is none

vars == <<chip, input, is_included, pc, idx, rows, new_byte_lookup_events, rows_and_records,
          output, state, round, guest, first_trace, rt, codec, plonk, parked>>

-----------------------------------------------------------------------------
(* Bounds of the model.                                                    *)

\* values a byte can take (256 in the program)
BYTE_BASE == 2
\* the scalar modulus p of Bn254ScalarField, scaled
MODULUS == 47
\* order of the field the trace lives in, scaled
FIELD_ORDER == 1009
\* most events of one kind in a shard (one-row-per-event chips)
MaxEvents == 3
\* most Poseidon events in a shard
MaxPoseidonEvents == 2
\* largest log2 height a shape hint fixes
MaxLog2 == 2
\* largest operand the guest program passes to sys_bn254_muladd
MaxGuestOperand == 7
\* ecalls of one execution pass
MaxCalls == 2
\* most events of one kind in a shard two chips build their traces from
MaxParEvents == 2

(* Program constants.                                                      *)
BYTES_PER_WORD == 4
NUM_WORDS_PER_FE == 8
WIDTH == 3
FULL_ROUNDS == 8
PARTIAL_ROUNDS == 57
RATE == 2
\* events per chunk in Bn254MulAdd's generate_trace
CHUNK_SIZE == 1
\* size_of::<PoseidonCols<u8>>(): 6 scalars, 6 arrays of WIDTH, 5 flags, 2 pointers, 1 output
NUM_COLS == 32

WORD_BASE == BYTE_BASE * BYTE_BASE * BYTE_BASE * BYTE_BASE

Chips == {"Bn254MulAdd", "Bn254ScalarMulAdd", "Bn254ScalarMac",
          "MemCopy32", "MemCopy64", "Poseidon", "PoseidonTrace"}
\* "Poseidon" is MachineAir::generate_trace of mod.rs, "PoseidonTrace" the
\* inherent PoseidonChip::generate_trace of trace.rs.
ArithChips == {"Bn254MulAdd", "Bn254ScalarMulAdd", "Bn254ScalarMac"}
MemCopyChips == {"MemCopy32", "MemCopy64"}
PoseidonChips == {"Poseidon", "PoseidonTrace"}
PadFixedChips == ArithChips \cup MemCopyChips

\* Option: None is the empty sequence, Some(x) the one-element sequence
None == <<>>
Some(x) == <<x>>

-----------------------------------------------------------------------------
(* Helpers on sequences and numbers.                                       *)

Range(s) == {s[i] : i \in 1..Len(s)}

RECURSIVE Pow2(_)
Pow2(k) == IF k = 0 THEN 1 ELSE 2 * Pow2(k - 1)

\* usize::is_power_of_two: false for 0
IsPowerOfTwo(n) == \E k \in 0..30 : n = Pow2(k)

\* usize::next_power_of_two: the least power of two >= n (1 for n = 0)
RECURSIVE NextPow2From(_, _)
NextPow2From(n, p) == IF p >= n THEN p ELSE NextPow2From(n, 2 * p)
NextPowerOfTwo(n) == NextPow2From(n, 1)

Zeros(n) == [i \in 1..n |-> 0]

\* BigUint::from_bytes_le(words_to_bytes_le(words)) / value_as_biguint: the
\* integer whose little-endian words are w.
RECURSIVE WordsToBigUint(_)
WordsToBigUint(w) ==
    IF Len(w) = 0 THEN 0
    ELSE w[1] + WORD_BASE * WordsToBigUint(Tail(w))

\* the little-endian n-word encoding of v (zero padded)
RECURSIVE BigUintToWords(_, _)
BigUintToWords(v, n) ==
    IF n = 0 THEN <<>>
    ELSE <<v % WORD_BASE>> \o BigUintToWords(v \div WORD_BASE, n - 1)

\* u32::to_le_bytes of one word
RECURSIVE WordBytes(_, _)
WordBytes(w, n) ==
    IF n = 0 THEN <<>> ELSE <<w % BYTE_BASE>> \o WordBytes(w \div BYTE_BASE, n - 1)

\* bytemuck::cast::<[u32; 8], [u8; 32]> / words_to_bytes_le
RECURSIVE WordsToBytesLe(_)
WordsToBytesLe(w) ==
    IF Len(w) = 0 THEN <<>>
    ELSE WordBytes(w[1], BYTES_PER_WORD) \o WordsToBytesLe(Tail(w))

\* BigUint::from_bytes_le
RECURSIVE BytesToBigUint(_)
BytesToBigUint(b) ==
    IF Len(b) = 0 THEN 0 ELSE b[1] + BYTE_BASE * BytesToBigUint(Tail(b))

\* F::from_canonical_u32 / from_canonical_usize: the field element of an integer
FromCanonical(n) == n % FIELD_ORDER

-----------------------------------------------------------------------------
(* Memory records and events, as the executor records them.                *)

\* MemoryReadRecord at word i of a region starting at ptr
MemoryReadRecord(ptr, i, value, clk) ==
    [addr |-> ptr + BYTES_PER_WORD * (i - 1), value |-> value,
     timestamp |-> clk, prev_timestamp |-> 0]

\* MemoryWriteRecord at word i of a region starting at ptr
MemoryWriteRecord(ptr, i, prev_value, value, clk) ==
    [addr |-> ptr + BYTES_PER_WORD * (i - 1), value |-> value,
     prev_value |-> prev_value, timestamp |-> clk, prev_timestamp |-> 0]

\* The pointers the events of the model use (word aligned).
XPtr == 4 * BYTES_PER_WORD
YPtr == 12 * BYTES_PER_WORD
APtr == 20 * BYTES_PER_WORD
BPtr == 28 * BYTES_PER_WORD

\* The event the executor records for one multiply-add invocation with prior
\* destination value x and operands a, b: the operands are read at clk, the
\* destination is written with (x + a*b) mod p at clk + 1. Bn254MulAdd reads a
\* and b contiguously from y_ptr; the scalar chips read two pointers from
\* y_ptr and a and b through them.
ArithEvent(c, shard, clk, x, a, b) ==
    LET xw == BigUintToWords(x, NUM_WORDS_PER_FE)
        aw == BigUintToWords(a, NUM_WORDS_PER_FE)
        bw == BigUintToWords(b, NUM_WORDS_PER_FE)
        rw == BigUintToWords((x + ((a * b) % MODULUS)) % MODULUS, NUM_WORDS_PER_FE)
        a_at == IF c = "Bn254MulAdd" THEN YPtr ELSE APtr
        b_at == IF c = "Bn254MulAdd" THEN YPtr + NUM_WORDS_PER_FE * BYTES_PER_WORD ELSE BPtr
    IN  [shard |-> shard, clk |-> clk, x_ptr |-> XPtr, y_ptr |-> YPtr,
         x |-> xw, a |-> aw, b |-> bw,
         x_memory_records |->
            [i \in 1..NUM_WORDS_PER_FE |-> MemoryWriteRecord(XPtr, i, xw[i], rw[i], clk + 1)],
         arg2_memory_records |->
            IF c = "Bn254MulAdd" THEN <<>>
            ELSE <<MemoryReadRecord(YPtr, 1, APtr, clk), MemoryReadRecord(YPtr, 2, BPtr, clk)>>,
         a_memory_records |->
            [i \in 1..NUM_WORDS_PER_FE |-> MemoryReadRecord(a_at, i, aw[i], clk)],
         b_memory_records |->
            [i \in 1..NUM_WORDS_PER_FE |-> MemoryReadRecord(b_at, i, bw[i], clk)]]

\* The event the executor records for one memory copy of the words src over
\* a destination holding dst: reads at clk, writes at clk + 1.
MemCopyEvent(shard, clk, src, dst) ==
    [shard |-> shard, clk |-> clk, src_ptr |-> XPtr, dst_ptr |-> APtr,
     read_records |-> [i \in 1..Len(src) |-> MemoryReadRecord(XPtr, i, src[i], clk)],
     write_records |->
        [i \in 1..Len(src) |-> MemoryWriteRecord(APtr, i, dst[i], src[i], clk + 1)]]

\* PoseidonEvent
PoseidonEvent(shard, clk, in) ==
    [shard |-> shard, clk |-> clk, input_ptr |-> XPtr, output_ptr |-> APtr, input |-> in]

-----------------------------------------------------------------------------
(* Column groups shared by the chips.                                      *)

\* MemoryReadCols::populate: the value as byte limbs
MemoryReadCols(record) ==
    [value |-> WordBytes(record.value, BYTES_PER_WORD),
     prev_clk |-> FromCanonical(record.prev_timestamp)]

\* MemoryWriteCols::populate: the value and the prior value as byte limbs
MemoryWriteCols(record) ==
    [value |-> WordBytes(record.value, BYTES_PER_WORD),
     prev_value |-> WordBytes(record.prev_value, BYTES_PER_WORD),
     prev_clk |-> FromCanonical(record.prev_timestamp)]

\* the byte-lookup event one memory populate spawns (timestamp difference)
MemoryLookup(record) == <<"U16Range", record.timestamp - record.prev_timestamp>>

ZeroReadCols == [value |-> Zeros(BYTES_PER_WORD), prev_clk |-> 0]
ZeroWriteCols ==
    [value |-> Zeros(BYTES_PER_WORD), prev_value |-> Zeros(BYTES_PER_WORD), prev_clk |-> 0]

\* value_as_limbs / limbs_from_access: the byte limbs of a memory column group
RECURSIVE value_as_limbs(_)
value_as_limbs(cols) ==
    IF Len(cols) = 0 THEN <<>> ELSE cols[1].value \o value_as_limbs(Tail(cols))

\* limbs_from_prev_access: prior values of a write group, the values of a read group
RECURSIVE limbs_from_prev_access(_)
limbs_from_prev_access(cols) ==
    IF Len(cols) = 0 THEN <<>>
    ELSE (IF "prev_value" \in DOMAIN cols[1] THEN cols[1].prev_value ELSE cols[1].value)
         \o limbs_from_prev_access(Tail(cols))

NUM_LIMBS == NUM_WORDS_PER_FE * BYTES_PER_WORD

\* the byte limbs of an integer
RECURSIVE BigUintToLimbs(_, _)
BigUintToLimbs(v, n) ==
    IF n = 0 THEN <<>>
    ELSE <<v % BYTE_BASE>> \o BigUintToLimbs(v \div BYTE_BASE, n - 1)

\* FieldOpCols::populate: the witness of a op b modulo p. Mul: a*b = p*carry + result,
\* Add: a + b = p*carry + result, with 0 <= result < p; no division by an operand.
FieldOpPopulate(a, b, op) ==
    LET v == IF op = "Mul" THEN a * b ELSE a + b
    IN  [result |-> BigUintToLimbs(v % MODULUS, NUM_LIMBS),
         carry |-> BigUintToLimbs(v \div MODULUS, NUM_LIMBS)]

\* the value FieldOpCols::populate returns
FieldOpResult(a, b, op) == (IF op = "Mul" THEN a * b ELSE a + b) % MODULUS

\* the byte-lookup event a FieldOpCols::populate spawns (range check of its limbs)
FieldOpLookup(shard, a, b, op) == <<"U8Range", shard, FieldOpResult(a, b, op)>>

\* FieldOpCols::eval: the residue of a op b - p*carry - result, gated by is_real
FieldOpResidue(cols, a_limbs, b_limbs, op, is_real) ==
    LET a == BytesToBigUint(a_limbs)
        b == BytesToBigUint(b_limbs)
        v == IF op = "Mul" THEN a * b ELSE a + b
    IN  is_real * (v - MODULUS * BytesToBigUint(cols.carry) - BytesToBigUint(cols.result))

-----------------------------------------------------------------------------
(* Rows of the one-row-per-event chips.  Each row builder returns the row  *)
(* and the byte-lookup events spawned while populating it.                 *)

ZeroFieldOpCols == [result |-> Zeros(NUM_LIMBS), carry |-> Zeros(NUM_LIMBS)]

\* [F::zero(); NUM_COLS] seen through Bn254MulAddCols
Bn254MulAddZeroRow ==
    [is_real |-> 0, shard |-> 0, clk |-> 0, nonce |-> 0, x_ptr |-> 0, y_ptr |-> 0,
     x_memory |-> [i \in 1..NUM_WORDS_PER_FE |-> ZeroWriteCols],
     a_memory |-> [i \in 1..NUM_WORDS_PER_FE |-> ZeroReadCols],
     b_memory |-> [i \in 1..NUM_WORDS_PER_FE |-> ZeroReadCols],
     a_mul_b |-> ZeroFieldOpCols, add_eval |-> ZeroFieldOpCols]

\* an add_eval populated with the multiplicand in place of the prior destination value
AddEvalOperandsFromA(x, a, b) == <<a, FieldOpResult(a, b, "Mul")>>

\* the operands the add_eval witness of a real row is populated with
AddEvalOperands(x, a, b) == <<x, FieldOpResult(a, b, "Mul")>>

\* Bn254MulAddChip::generate_trace, the closure building the row of one event
Bn254MulAddRow(event) ==
    LET x == WordsToBigUint(event.x)
        a == WordsToBigUint(event.a)
        b == WordsToBigUint(event.b)
        add == AddEvalOperands(x, a, b)
    IN  [row |->
            [Bn254MulAddZeroRow EXCEPT
                !.is_real = 1,
                !.shard = FromCanonical(event.shard),
                !.clk = FromCanonical(event.clk),
                !.x_ptr = FromCanonical(event.x_ptr),
                !.y_ptr = FromCanonical(event.y_ptr),
                !.x_memory = [i \in 1..NUM_WORDS_PER_FE |->
                                 MemoryWriteCols(event.x_memory_records[i])],
                !.a_memory = [i \in 1..NUM_WORDS_PER_FE |->
                                 MemoryReadCols(event.a_memory_records[i])],
                !.b_memory = [i \in 1..NUM_WORDS_PER_FE |->
                                 MemoryReadCols(event.b_memory_records[i])],
                !.a_mul_b = FieldOpPopulate(a, b, "Mul"),
                !.add_eval = FieldOpPopulate(add[1], add[2], "Add")],
         lookups |->
            [k \in 1..(3 * NUM_WORDS_PER_FE) |->
                LET i == ((k - 1) \div 3) + 1
                IN  CASE (k - 1) % 3 = 0 -> MemoryLookup(event.x_memory_records[i])
                      [] (k - 1) % 3 = 1 -> MemoryLookup(event.a_memory_records[i])
                      [] OTHER -> MemoryLookup(event.b_memory_records[i])]
            \o <<FieldOpLookup(event.shard, a, b, "Mul"),
                 FieldOpLookup(event.shard, add[1], add[2], "Add")>>]

\* a padding row whose witnesses are populated for the operands (1, 1)
Bn254MulAddPaddingRowOfOnes ==
    [Bn254MulAddZeroRow EXCEPT
        !.a_mul_b = FieldOpPopulate(1, 1, "Mul"),
        !.add_eval = FieldOpPopulate(1, 1, "Add")]

\* the padding row of Bn254MulAdd: witnesses populated for the operand pair (0, 0)
Bn254MulAddPaddingRow ==
    [Bn254MulAddZeroRow EXCEPT
        !.a_mul_b = FieldOpPopulate(0, 0, "Mul"),
        !.add_eval = FieldOpPopulate(0, 0, "Add")]

\* [F::zero(); NUM_COLS] seen through Bn254ScalarMulAddCols
Bn254ScalarMulAddZeroRow ==
    [is_real |-> 0, shard |-> 0, channel |-> 0, clk |-> 0, nonce |-> 0,
     x_ptr |-> 0, y_ptr |-> 0,
     x_memory |-> [i \in 1..NUM_WORDS_PER_FE |-> ZeroWriteCols],
     a_ptr_memory |-> ZeroReadCols, b_ptr_memory |-> ZeroReadCols,
     a_memory |-> [i \in 1..NUM_WORDS_PER_FE |-> ZeroReadCols],
     b_memory |-> [i \in 1..NUM_WORDS_PER_FE |-> ZeroReadCols],
     a_mul_b |-> ZeroFieldOpCols, add_eval |-> ZeroFieldOpCols]

\* prev_value_as_biguint of a write access
PrevValueAsBigUint(records) ==
    WordsToBigUint([i \in 1..Len(records) |-> records[i].prev_value])

\* value_as_biguint of a read access
ValueAsBigUint(records) ==
    WordsToBigUint([i \in 1..Len(records) |-> records[i].value])

\* Bn254ScalarMulAddChip::generate_trace, the loop body building the row of one event
Bn254ScalarMulAddRow(event) ==
    LET x == PrevValueAsBigUint(event.x_memory_records)
        a == ValueAsBigUint(event.a_memory_records)
        b == ValueAsBigUint(event.b_memory_records)
        add == AddEvalOperands(x, a, b)
    IN  [row |->
            [Bn254ScalarMulAddZeroRow EXCEPT
                !.is_real = 1,
                !.shard = FromCanonical(event.shard),
                !.clk = FromCanonical(event.clk),
                !.x_ptr = FromCanonical(event.x_ptr),
                !.y_ptr = FromCanonical(event.y_ptr),
                !.a_mul_b = FieldOpPopulate(a, b, "Mul"),
                !.add_eval = FieldOpPopulate(add[1], add[2], "Add"),
                !.a_ptr_memory = MemoryReadCols(event.arg2_memory_records[1]),
                !.b_ptr_memory = MemoryReadCols(event.arg2_memory_records[2]),
                !.x_memory = [i \in 1..NUM_WORDS_PER_FE |->
                                 MemoryWriteCols(event.x_memory_records[i])],
                !.a_memory = [i \in 1..NUM_WORDS_PER_FE |->
                                 MemoryReadCols(event.a_memory_records[i])],
                !.b_memory = [i \in 1..NUM_WORDS_PER_FE |->
                                 MemoryReadCols(event.b_memory_records[i])]],
         lookups |->
            <<FieldOpLookup(event.shard, a, b, "Mul"),
              FieldOpLookup(event.shard, add[1], add[2], "Add"),
              MemoryLookup(event.arg2_memory_records[1]),
              MemoryLookup(event.arg2_memory_records[2])>>
            \o [k \in 1..(3 * NUM_WORDS_PER_FE) |->
                LET i == ((k - 1) \div 3) + 1
                IN  CASE (k - 1) % 3 = 0 -> MemoryLookup(event.x_memory_records[i])
                      [] (k - 1) % 3 = 1 -> MemoryLookup(event.a_memory_records[i])
                      [] OTHER -> MemoryLookup(event.b_memory_records[i])]]

\* the padding row of Bn254ScalarMulAdd
Bn254ScalarMulAddPaddingRow ==
    [Bn254ScalarMulAddZeroRow EXCEPT
        !.a_mul_b = FieldOpPopulate(0, 0, "Mul"),
        !.add_eval = FieldOpPopulate(0, 0, "Add")]

\* [F::zero(); NUM_COLS] seen through Bn254ScalarMacCols (no nonce column)
Bn254ScalarMacZeroRow ==
    [is_real |-> 0, shard |-> 0, channel |-> 0, clk |-> 0,
     arg1_ptr |-> 0, arg2_ptr |-> 0,
     arg1_access |-> [i \in 1..NUM_WORDS_PER_FE |-> ZeroWriteCols],
     arg2_access |-> [i \in 1..2 |-> ZeroReadCols],
     a_access |-> [i \in 1..NUM_WORDS_PER_FE |-> ZeroReadCols],
     b_access |-> [i \in 1..NUM_WORDS_PER_FE |-> ZeroReadCols],
     mul_eval |-> ZeroFieldOpCols, add_eval |-> ZeroFieldOpCols]

\* Bn254ScalarMacChip::generate_trace, the loop body building the row of one event
Bn254ScalarMacRow(event) ==
    LET arg1 == PrevValueAsBigUint(event.x_memory_records)
        a == ValueAsBigUint(event.a_memory_records)
        b == ValueAsBigUint(event.b_memory_records)
        add == AddEvalOperands(arg1, a, b)
    IN  [row |->
            [Bn254ScalarMacZeroRow EXCEPT
                !.is_real = 1,
                !.shard = FromCanonical(event.shard),
                !.clk = FromCanonical(event.clk),
                !.arg1_ptr = FromCanonical(event.x_ptr),
                !.arg2_ptr = FromCanonical(event.y_ptr),
                !.mul_eval = FieldOpPopulate(a, b, "Mul"),
                !.add_eval = FieldOpPopulate(add[1], add[2], "Add"),
                !.arg1_access = [i \in 1..NUM_WORDS_PER_FE |->
                                    MemoryWriteCols(event.x_memory_records[i])],
                !.arg2_access = [i \in 1..2 |->
                                    MemoryReadCols(event.arg2_memory_records[i])],
                !.a_access = [i \in 1..NUM_WORDS_PER_FE |->
                                 MemoryReadCols(event.a_memory_records[i])],
                !.b_access = [i \in 1..NUM_WORDS_PER_FE |->
                                 MemoryReadCols(event.b_memory_records[i])]],
         lookups |->
            <<FieldOpLookup(0, a, b, "Mul"), FieldOpLookup(0, add[1], add[2], "Add")>>
            \o [i \in 1..NUM_WORDS_PER_FE |-> MemoryLookup(event.x_memory_records[i])]
            \o [i \in 1..2 |-> MemoryLookup(event.arg2_memory_records[i])]
            \o [i \in 1..NUM_WORDS_PER_FE |-> MemoryLookup(event.a_memory_records[i])]
            \o [i \in 1..NUM_WORDS_PER_FE |-> MemoryLookup(event.b_memory_records[i])]]

\* the padding row of Bn254ScalarMac
Bn254ScalarMacPaddingRow ==
    [Bn254ScalarMacZeroRow EXCEPT
        !.mul_eval = FieldOpPopulate(0, 0, "Mul"),
        !.add_eval = FieldOpPopulate(0, 0, "Add")]

\* NumWords::USIZE of the two memory-copy chips
NumWords(c) == IF c = "MemCopy32" THEN NUM_WORDS_PER_FE ELSE 2 * NUM_WORDS_PER_FE

\* vec![F::zero(); NUM_COLS] seen through MemCopyCols (no nonce column)
MemCopyZeroRow(c) ==
    [is_real |-> 0, shard |-> 0, channel |-> 0, clk |-> 0, src_ptr |-> 0, dst_ptr |-> 0,
     src_access |-> [i \in 1..NumWords(c) |-> ZeroReadCols],
     dst_access |-> [i \in 1..NumWords(c) |-> ZeroWriteCols]]

\* destination columns populated from the write records in reverse word order
DstRecordReversed(event, i) == event.write_records[Len(event.write_records) + 1 - i]

\* the write record populated into dst_access[i]
DstRecord(event, i) == event.write_records[i]

\* MemCopyChip::generate_trace, the loop body building the row of one event
MemCopyRow(c, event) ==
    [row |->
        [MemCopyZeroRow(c) EXCEPT
            !.is_real = 1,
            !.shard = FromCanonical(event.shard),
            !.clk = FromCanonical(event.clk),
            !.src_ptr = FromCanonical(event.src_ptr),
            !.dst_ptr = FromCanonical(event.dst_ptr),
            !.src_access = [i \in 1..NumWords(c) |-> MemoryReadCols(event.read_records[i])],
            !.dst_access = [i \in 1..NumWords(c) |-> MemoryWriteCols(DstRecord(event, i))]],
     lookups |->
        [i \in 1..NumWords(c) |-> MemoryLookup(event.read_records[i])]
        \o [i \in 1..NumWords(c) |-> MemoryLookup(DstRecord(event, i))]]

\* the row a one-row-per-event chip builds from one event
EventRow(c, event) ==
    CASE c = "Bn254MulAdd" -> Bn254MulAddRow(event)
      [] c = "Bn254ScalarMulAdd" -> Bn254ScalarMulAddRow(event)
      [] c = "Bn254ScalarMac" -> Bn254ScalarMacRow(event)
      [] OTHER -> MemCopyRow(c, event)

\* the row the padding closure of a chip returns
PaddingRow(c) ==
    CASE c = "Bn254MulAdd" -> Bn254MulAddPaddingRow
      [] c = "Bn254ScalarMulAdd" -> Bn254ScalarMulAddPaddingRow
      [] c = "Bn254ScalarMac" -> Bn254ScalarMacPaddingRow
      [] OTHER -> MemCopyZeroRow(c)

-----------------------------------------------------------------------------
(* The Poseidon chip.  A u64 constant is written as its four 16-bit limbs, *)
(* least significant first, so that the tables hold the source's values.   *)

LIMB16 == 256 * 256

\* F::from_canonical_u64 of a constant given by its 16-bit limbs
FromCanonicalU64(c) ==
    LET h3 == c[4] % FIELD_ORDER
        h2 == ((h3 * LIMB16) + c[3]) % FIELD_ORDER
        h1 == ((h2 * LIMB16) + c[2]) % FIELD_ORDER
    IN  ((h1 * LIMB16) + c[1]) % FIELD_ORDER

POSEIDON_MDS ==
    << << <<62966, 46361, 44388, 11373>>, <<28692, 50008, 38882, 35031>>, <<20409, 3427, 30778, 41087>> >>,
       << <<24076, 46709, 61462, 11648>>, <<46433, 36738, 57326, 29747>>, <<14283, 50852, 12787, 35953>> >>,
       << <<36499, 57180, 18136, 7264>>, <<56846, 51691, 48633, 42982>>, <<10964, 63127, 26804, 38925>> >> >>

POSEIDON_ROUND_CONSTANTS ==
    << << <<55079, 28796, 42386, 3817>>, <<2958, 54912, 26440, 12793>>, <<63684, 11334, 41578, 17319>> >>,
       << <<18039, 62340, 11920, 10043>>, <<3827, 6978, 51192, 2948>>, <<25398, 7187, 5290, 19320>> >>,
       << <<11316, 7642, 12509, 20331>>, <<214, 35386, 33317, 13504>>, <<62646, 1340, 26954, 2087>> >>,
       << <<8274, 60285, 26515, 13998>>, <<64996, 63454, 47317, 20054>>, <<24363, 36568, 13653, 8766>> >>,
       << <<24223, 11759, 49635, 3188>>, <<53649, 51429, 16153, 2974>>, <<61520, 48739, 17489, 20467>> >>,
       << <<30274, 50246, 58066, 2230>>, <<22058, 18652, 57988, 13931>>, <<38545, 57715, 6205, 19523>> >>,
       << <<65430, 16930, 11390, 14230>>, <<2319, 57544, 3403, 7080>>, <<38545, 57715, 6205, 19523>> >>,
       << <<62966, 46361, 44388, 11373>>, <<28692, 50008, 38882, 35031>>, <<20409, 3427, 30778, 41087>> >> >>

\* the initializer lists 60 literals under the declared length PARTIAL_ROUNDS = 57;
\* the rounds index entries 0..56
POSEIDON_PARTIAL_CONSTANTS ==
    << <<23406, 42338, 30166, 6320>>, <<51669, 51834, 4925, 32285>>, <<7783, 59765, 34170, 40320>>,
       <<55079, 28796, 42386, 3817>>, <<2958, 54912, 26440, 12793>>, <<63684, 11334, 41578, 17319>>,
       <<18039, 62340, 11920, 10043>>, <<3827, 6978, 51192, 2948>>, <<25398, 7187, 5290, 19320>>,
       <<11316, 7642, 12509, 20331>>, <<214, 35386, 33317, 13504>>, <<62646, 1340, 26954, 2087>>,
       <<8274, 60285, 26515, 13998>>, <<64996, 63454, 47317, 20054>>, <<24363, 36568, 13653, 8766>>,
       <<24223, 11759, 49635, 3188>>, <<53649, 51429, 16153, 2974>>, <<61520, 48739, 17489, 20467>>,
       <<30274, 50246, 58066, 2230>>, <<22058, 18652, 57988, 13931>>, <<38545, 57715, 6205, 19523>>,
       <<65430, 16930, 11390, 14230>>, <<2319, 57544, 3403, 7080>>, <<38545, 57715, 6205, 19523>>,
       <<62966, 46361, 44388, 11373>>, <<28692, 50008, 38882, 35031>>, <<20409, 3427, 30778, 41087>>,
       <<24076, 46709, 61462, 11648>>, <<46433, 36738, 57326, 29747>>, <<14283, 50852, 12787, 35953>>,
       <<36499, 57180, 18136, 7264>>, <<56846, 51691, 48633, 42982>>, <<10964, 63127, 26804, 38925>>,
       <<23406, 42338, 30166, 6320>>, <<51669, 51834, 4925, 32285>>, <<7783, 59765, 34170, 40320>>,
       <<55079, 28796, 42386, 3817>>, <<2958, 54912, 26440, 12793>>, <<63684, 11334, 41578, 17319>>,
       <<18039, 62340, 11920, 10043>>, <<3827, 6978, 51192, 2948>>, <<25398, 7187, 5290, 19320>>,
       <<11316, 7642, 12509, 20331>>, <<214, 35386, 33317, 13504>>, <<62646, 1340, 26954, 2087>>,
       <<8274, 60285, 26515, 13998>>, <<64996, 63454, 47317, 20054>>, <<24363, 36568, 13653, 8766>>,
       <<24223, 11759, 49635, 3188>>, <<53649, 51429, 16153, 2974>>, <<61520, 48739, 17489, 20467>>,
       <<30274, 50246, 58066, 2230>>, <<22058, 18652, 57988, 13931>>, <<38545, 57715, 6205, 19523>>,
       <<65430, 16930, 11390, 14230>>, <<2319, 57544, 3403, 7080>>, <<38545, 57715, 6205, 19523>>,
       <<62966, 46361, 44388, 11373>>, <<28692, 50008, 38882, 35031>>, <<20409, 3427, 30778, 41087>> >>

FAdd(a, b) == (a + b) % FIELD_ORDER
FMul(a, b) == (a * b) % FIELD_ORDER

\* x^5 as square, square, multiply
Sbox(x) == FMul(FMul(FMul(x, x), FMul(x, x)), x)

\* a round type whose second full range starts one round late
IsFullRoundLate(r) ==
    r < FULL_ROUNDS \div 2 \/ r > (FULL_ROUNDS \div 2) + PARTIAL_ROUNDS

\* the round type of round r (0-based): full in the first and last FULL_ROUNDS/2 rounds
IsFullRound(r) ==
    r < FULL_ROUNDS \div 2 \/ r >= (FULL_ROUNDS \div 2) + PARTIAL_ROUNDS

\* index into POSEIDON_ROUND_CONSTANTS of a full round (0-based)
RcIdx(r) == IF r < FULL_ROUNDS \div 2 THEN r ELSE r - PARTIAL_ROUNDS

\* index into POSEIDON_PARTIAL_CONSTANTS of a partial round (0-based)
PartialIdx(r) == r - (FULL_ROUNDS \div 2)

\* the round_constants columns of round r
RoundConstants(r, is_full) ==
    IF is_full
    THEN [i \in 1..WIDTH |-> FromCanonicalU64(POSEIDON_ROUND_CONSTANTS[RcIdx(r) + 1][i])]
    ELSE [i \in 1..WIDTH |->
            IF i = 1 THEN FromCanonicalU64(POSEIDON_PARTIAL_CONSTANTS[PartialIdx(r) + 1])
            ELSE 0]

ArkState(st, rcs) == [i \in 1..WIDTH |-> FAdd(st[i], rcs[i])]

\* a power map applied to every word in every round
SboxStateEveryWord(ark, is_full) == [i \in 1..WIDTH |-> Sbox(ark[i])]

\* the S-box layer: every word in a full round, the first word in a partial round
SboxState(ark, is_full) ==
    [i \in 1..WIDTH |-> IF is_full \/ i = 1 THEN Sbox(ark[i]) ELSE ark[i]]

RECURSIVE MdsSum(_, _, _)
MdsSum(sbox, i, j) ==
    IF j = 0 THEN 0
    ELSE FAdd(MdsSum(sbox, i, j - 1), FMul(sbox[j], FromCanonicalU64(POSEIDON_MDS[i][j])))

MixState(sbox) == [i \in 1..WIDTH |-> MdsSum(sbox, i, WIDTH)]

\* vec![F::zero(); NUM_COLS] seen through PoseidonCols / PoseidonCols::default()
PoseidonZeroRow ==
    [is_real |-> 0, shard |-> 0, clk |-> 0, nonce |-> 0,
     round_ctr |-> 0, is_full_round |-> 0,
     state |-> Zeros(WIDTH), round_constants |-> Zeros(WIDTH),
     ark_state |-> Zeros(WIDTH), sbox_state |-> Zeros(WIDTH),
     mix_state |-> Zeros(WIDTH), next_state |-> Zeros(WIDTH),
     is_memory_op |-> 0, is_arithmetic |-> 0, is_binary |-> 0,
     is_input_op |-> 0, is_output_op |-> 0,
     input_ptr |-> 0, output_ptr |-> 0, output_value |-> 0]

LastRound == FULL_ROUNDS + PARTIAL_ROUNDS - 1

\* PoseidonCols::populate_trace_row
populate_trace_row(shard, clk, r, st, is_full) ==
    LET rcs == RoundConstants(r, is_full)
        ark == ArkState(st, rcs)
        sbox == SboxState(ark, is_full)
        mix == MixState(sbox)
    IN  [PoseidonZeroRow EXCEPT
            !.is_real = 1,
            !.shard = FromCanonical(shard),
            !.clk = FromCanonical(clk),
            !.round_ctr = FromCanonical(r),
            !.is_full_round = IF is_full THEN 1 ELSE 0,
            !.state = st,
            !.round_constants = rcs,
            !.ark_state = ark,
            !.sbox_state = sbox,
            !.mix_state = mix,
            !.next_state = mix,
            !.is_arithmetic = 1,
            !.is_binary = 0,
            !.is_memory_op = IF r = 0 \/ r = LastRound THEN 1 ELSE 0,
            !.is_input_op = IF r = 0 THEN 1 ELSE 0,
            !.is_output_op = IF r = LastRound THEN 1 ELSE 0]

\* PoseidonCols::populate_empty_row
populate_empty_row == PoseidonZeroRow

\* MachineAir::generate_trace of mod.rs: the state a new event starts from
\* (the first RATE input words, the rest zero)
PoseidonAirInitialState(event) ==
    [i \in 1..WIDTH |-> IF i <= RATE THEN event.input[i] % FIELD_ORDER ELSE 0]

\* MachineAir::generate_trace of mod.rs, the body of the round loop: the row of
\* round r
PoseidonAirRoundRow(event, st, r) ==
    populate_trace_row(event.shard, event.clk, r, st, IsFullRound(r))

\* the round loop of mod.rs never assigns state: every round starts from the same state
PoseidonAirNextState(row, st) == st

\* PoseidonChip::generate_trace of trace.rs: the state a new event starts from
PoseidonTraceInitialState(event) ==
    [i \in 1..WIDTH |-> event.input[i] % FIELD_ORDER]

\* PoseidonChip::generate_trace of trace.rs, the body of the round loop
PoseidonTraceRoundRow(event, st, r) ==
    LET is_full == IsFullRound(r)
        rcs == RoundConstants(r, is_full)
        ark == ArkState(st, rcs)
        sbox == SboxState(ark, is_full)
        mix == MixState(sbox)
    IN  [PoseidonZeroRow EXCEPT
            !.is_real = 1,
            !.shard = FromCanonical(event.shard),
            !.clk = FromCanonical(event.clk),
            !.round_ctr = FromCanonical(r),
            !.is_full_round = IF is_full THEN 1 ELSE 0,
            !.state = st,
            !.round_constants = rcs,
            !.ark_state = ark,
            !.sbox_state = sbox,
            !.mix_state = mix,
            !.next_state = mix,
            !.input_ptr = FromCanonical(event.input_ptr),
            !.output_ptr = FromCanonical(event.output_ptr),
            !.is_arithmetic = 1,
            !.is_binary = 0,
            !.is_memory_op = IF r = 0 \/ r = LastRound THEN 1 ELSE 0]

\* state = mix_state at the end of the round loop body
PoseidonTraceNextState(row, st) == row.mix_state

-----------------------------------------------------------------------------
(* generate_trace as a state machine.                                      *)

NumEvents == Len(input.events)

\* input.fixed_log2_rows(chip): the height the shape hint fixes for the chip, if any
fixed_log2_rows(in) == IF in.shape = None THEN None ELSE Some(in.shape[1].log2)

\* pad_rows_fixed: extend rows with the padding row up to the fixed height, or
\* to the next power of two when no height is fixed
pad_rows_fixed(rs, row, size_log2) ==
    LET target == IF size_log2 = None THEN NextPowerOfTwo(Len(rs)) ELSE Pow2(size_log2[1])
    IN  rs \o [i \in 1..(target - Len(rs)) |-> row]

\* a padding loop that stops at the next even length
PoseidonPadRowsToEven(rs, row) ==
    IF Len(rs) % 2 = 0 THEN rs ELSE Append(rs, row)

\* while !rows.len().is_power_of_two() { rows.push(empty row) }
RECURSIVE PoseidonPadRows(_, _)
PoseidonPadRows(rs, row) ==
    IF IsPowerOfTwo(Len(rs)) THEN rs ELSE PoseidonPadRows(Append(rs, row), row)

\* nonces continued from a counter that outlives the call
WriteNoncesFromCounter(rs) ==
    [i \in 1..Len(rs) |->
        [rs[i] EXCEPT !.nonce = FromCanonical(
                          i - 1 + (IF first_trace = None THEN 0 ELSE Len(rs)))]]

\* the nonce loop: cols.nonce = F::from_canonical_usize(i) for every row i
WriteNonces(rs) == [i \in 1..Len(rs) |-> [rs[i] EXCEPT !.nonce = FromCanonical(i - 1)]]

\* a merge that puts each chunk's rows in front of the earlier ones
ExtendRowsFront(rs, chunk_rows) == chunk_rows \o rs

\* rows.extend(row) of the merge loop of Bn254MulAdd
ExtendRows(rs, chunk_rows) == rs \o chunk_rows

\* the position after the per-event loop of each chip
AfterEvents(c) ==
    CASE c = "Bn254MulAdd" -> "merge"
      [] c \in PoseidonChips -> "pad"
      [] OTHER -> "flush"

\* the position after padding of each chip
AfterPad(c) ==
    CASE c \in {"Bn254MulAdd", "Bn254ScalarMulAdd"} -> "nonce"
      [] c = "PoseidonTrace" -> "flush"
      [] OTHER -> "done"

GuestIdle == [pc |-> "idle"]

\* no executor run, no conversion and no verifier call in progress
RtIdle == [pc |-> "idle"]
CodecIdle == [pc |-> "idle"]
PlonkIdle == [pc |-> "idle"]

\* generate_trace is entered; with a shape hint the chip must be named by it
\* (fixed_log2_rows has no height to return otherwise)
Start ==
    /\ pc = "start"
    /\ guest.pc = "idle"
    /\ IF chip \in PadFixedChips /\ input.shape # None THEN input.shape[1].has ELSE TRUE
    /\ pc' = IF NumEvents = 0 THEN AfterEvents(chip)
             ELSE IF chip = "Bn254MulAdd" THEN "chunks" ELSE "events"
    /\ idx' = 1
    /\ rows' = <<>>
    /\ new_byte_lookup_events' = <<>>
    /\ rows_and_records' = <<>>
    /\ round' = 0
    /\ UNCHANGED <<parked, first_trace, rt, codec, plonk, is_included, chip, input, output, state, guest>>

\* Bn254ScalarMulAdd, Bn254ScalarMac, MemCopy: one iteration of the event loop
EventLoop ==
    /\ pc = "events"
    /\ chip \in PadFixedChips \ {"Bn254MulAdd"}
    /\ idx <= NumEvents
    /\ LET r == EventRow(chip, input.events[idx])
       IN  /\ rows' = Append(rows, r.row)
           /\ new_byte_lookup_events' = new_byte_lookup_events \o r.lookups
    /\ idx' = idx + 1
    /\ pc' = IF idx + 1 > NumEvents THEN AfterEvents(chip) ELSE "events"
    /\ UNCHANGED <<parked, first_trace, rt, codec, plonk, is_included, chip, input, rows_and_records, output, state, round, guest>>

\* the events of chunk k
ChunkEvents(k) ==
    SubSeq(input.events, (k - 1) * CHUNK_SIZE + 1,
           IF k * CHUNK_SIZE < NumEvents THEN k * CHUNK_SIZE ELSE NumEvents)

NumChunks == (NumEvents + CHUNK_SIZE - 1) \div CHUNK_SIZE

\* the closure of the chunk map: the rows of the events of one chunk and the
\* record holding the byte-lookup events their populate calls pushed
ChunkRowsAndRecords(evs) ==
    LET built == [i \in 1..Len(evs) |-> Bn254MulAddRow(evs[i])]
        RECURSIVE Lookups(_)
        Lookups(i) == IF i = 0 THEN <<>> ELSE Lookups(i - 1) \o built[i].lookups
    IN  [rows |-> [i \in 1..Len(evs) |-> built[i].row],
         records |-> Lookups(Len(evs))]

\* Bn254MulAdd: the map over one chunk of events, giving its rows and its record
ChunkMap ==
    /\ pc = "chunks"
    /\ chip = "Bn254MulAdd"
    /\ idx <= NumChunks
    /\ rows_and_records' = Append(rows_and_records, ChunkRowsAndRecords(ChunkEvents(idx)))
    /\ idx' = IF idx + 1 > NumChunks THEN 1 ELSE idx + 1
    /\ pc' = IF idx + 1 > NumChunks THEN "merge" ELSE "chunks"
    /\ UNCHANGED <<parked, first_trace, rt, codec, plonk, is_included, chip, input, rows, new_byte_lookup_events, output, state, round, guest>>

\* an append that keeps only the record appended last
RecordAppendKeepLast(out, record) == record

\* output.append(&mut record): the byte-lookup events of record are added to
\* those of the output record
RecordAppend(out, record) == out \o record

\* Bn254MulAdd: one iteration of the merge loop, or its exit
ChunkMerge ==
    /\ pc = "merge"
    /\ chip = "Bn254MulAdd"
    /\ IF idx <= Len(rows_and_records)
       THEN /\ rows' = ExtendRows(rows, rows_and_records[idx].rows)
            /\ output' = RecordAppend(output, rows_and_records[idx].records)
            /\ idx' = idx + 1
            /\ pc' = pc
       ELSE /\ pc' = "pad"
            /\ UNCHANGED <<rows, output, idx>>
    /\ UNCHANGED <<parked, first_trace, rt, codec, plonk, is_included, chip, input, new_byte_lookup_events, rows_and_records, state, round, guest>>

\* a flush that overwrites the byte-lookup events of the output record
FlushOverwriting ==
    /\ pc = "flush"
    /\ output' = new_byte_lookup_events
    /\ pc' = IF chip = "PoseidonTrace" THEN "nonce" ELSE "pad"
    /\ UNCHANGED <<parked, first_trace, rt, codec, plonk, is_included, chip, input, idx, rows, new_byte_lookup_events, rows_and_records,
                   state, round, guest>>

\* output.add_byte_lookup_events(new_byte_lookup_events)
Flush ==
    /\ pc = "flush"
    /\ output' = output \o new_byte_lookup_events
    /\ pc' = IF chip = "PoseidonTrace" THEN "nonce" ELSE "pad"
    /\ UNCHANGED <<parked, first_trace, rt, codec, plonk, is_included, chip, input, idx, rows, new_byte_lookup_events, rows_and_records,
                   state, round, guest>>

\* a padding step whose closure pushes the byte-lookup events of the witnesses
\* of each padding row to the output record
PadRowsFixedRecording ==
    /\ pc = "pad"
    /\ chip \in PadFixedChips
    /\ rows' = pad_rows_fixed(rows, PaddingRow(chip), fixed_log2_rows(input))
    /\ output' = output \o [i \in 1..(Len(rows') - Len(rows)) |-> FieldOpLookup(0, 0, 0, "Mul")]
    /\ pc' = AfterPad(chip)
    /\ UNCHANGED <<parked, first_trace, rt, codec, plonk, is_included, chip, input, idx, new_byte_lookup_events, rows_and_records,
                   state, round, guest>>

\* pad_rows_fixed(&mut rows, padding closure, input.fixed_log2_rows(self))
PadRowsFixed ==
    /\ pc = "pad"
    /\ chip \in PadFixedChips
    /\ rows' = pad_rows_fixed(rows, PaddingRow(chip), fixed_log2_rows(input))
    /\ pc' = AfterPad(chip)
    /\ UNCHANGED <<parked, first_trace, rt, codec, plonk, is_included, chip, input, idx, new_byte_lookup_events, rows_and_records, output,
                   state, round, guest>>

\* MachineAir::generate_trace of mod.rs: one round of one event
PoseidonAirRound ==
    /\ pc = "events"
    /\ chip = "Poseidon"
    /\ idx <= NumEvents
    /\ LET event == input.events[idx]
           st == IF round = 0 THEN PoseidonAirInitialState(event) ELSE state
           row == PoseidonAirRoundRow(event, st, round)
       IN  /\ rows' = Append(rows, row)
           /\ state' = PoseidonAirNextState(row, st)
    /\ round' = IF round = LastRound THEN 0 ELSE round + 1
    /\ idx' = IF round = LastRound THEN idx + 1 ELSE idx
    /\ pc' = IF round = LastRound /\ idx + 1 > NumEvents THEN AfterEvents(chip) ELSE "events"
    /\ UNCHANGED <<parked, first_trace, rt, codec, plonk, is_included, chip, input, new_byte_lookup_events, rows_and_records, output, guest>>

\* PoseidonChip::generate_trace of trace.rs: one round of one event
PoseidonTraceRound ==
    /\ pc = "events"
    /\ chip = "PoseidonTrace"
    /\ idx <= NumEvents
    /\ LET event == input.events[idx]
           st == IF round = 0 THEN PoseidonTraceInitialState(event) ELSE state
           row == PoseidonTraceRoundRow(event, st, round)
       IN  /\ rows' = Append(rows, row)
           /\ state' = PoseidonTraceNextState(row, st)
    /\ round' = IF round = LastRound THEN 0 ELSE round + 1
    /\ idx' = IF round = LastRound THEN idx + 1 ELSE idx
    /\ pc' = IF round = LastRound /\ idx + 1 > NumEvents THEN AfterEvents(chip) ELSE "events"
    /\ UNCHANGED <<parked, first_trace, rt, codec, plonk, is_included, chip, input, new_byte_lookup_events, rows_and_records, output, guest>>

\* both Poseidon builders: the padding loop
PoseidonPad ==
    /\ pc = "pad"
    /\ chip \in PoseidonChips
    /\ rows' = PoseidonPadRows(rows, IF chip = "Poseidon" THEN populate_empty_row
                                     ELSE PoseidonZeroRow)
    /\ pc' = AfterPad(chip)
    /\ UNCHANGED <<parked, first_trace, rt, codec, plonk, is_included, chip, input, idx, new_byte_lookup_events, rows_and_records, output,
                   state, round, guest>>

\* Bn254MulAdd, Bn254ScalarMulAdd, trace.rs: the nonce loop over the built matrix
NonceLoop ==
    /\ pc = "nonce"
    /\ rows' = WriteNonces(rows)
    /\ pc' = "done"
    /\ UNCHANGED <<parked, first_trace, rt, codec, plonk, is_included, chip, input, idx, new_byte_lookup_events, rows_and_records, output,
                   state, round, guest>>

-----------------------------------------------------------------------------
(* included.                                                               *)

\* shape.included(chip): whether the shape hint names the chip
ShapeIncluded(shape) == shape.has

\* !shard.get_precompile_events(code).is_empty()
HasEvents(in) == Len(in.events) > 0

\* MachineAir::included of each chip
included(c, in) ==
    IF c = "Bn254MulAdd"
    THEN IF in.shape # None THEN ShapeIncluded(in.shape[1]) ELSE HasEvents(in)
    ELSE HasEvents(in)

\* the prover asks the chip whether the shard includes it; generate_trace is
\* entered afterwards (the tests enter it whatever the answer)
Included ==
    /\ pc = "included"
    /\ guest.pc = "idle"
    /\ is_included' = Some(included(chip, input))
    /\ pc' = "start"
    /\ UNCHANGED <<parked, first_trace, rt, codec, plonk, chip, input, idx, rows,
                   new_byte_lookup_events, rows_and_records, output, state, round, guest>>

-----------------------------------------------------------------------------
(* The guest side: sys_bn254_muladd and the syscall it issues.             *)

\* core::ptr::copy(src, dst.add(at), n) into a word buffer (at is 0-based)
CopyWords(dst, at, src) ==
    [i \in 1..Len(dst) |-> IF i > at /\ i <= at + Len(src) THEN src[i - at] ELSE dst[i]]

\* a seed taken from the first operand instead of the addend
ResultSeedFromX(g) == g.x

\* the operand sys_bn254_muladd copies into the result buffer before the syscall
ResultSeed(g) == g.z

\* sys_bn254_muladd: copy x into the first half of concat_y_z
GuestCopyX ==
    /\ guest.pc = "copy_x"
    /\ guest' = [guest EXCEPT !.concat = CopyWords(guest.concat, 0, guest.x),
                              !.pc = "copy_y"]
    /\ UNCHANGED <<parked, first_trace, rt, codec, plonk, is_included, chip, input, pc, idx, rows, new_byte_lookup_events, rows_and_records,
                   output, state, round>>

\* sys_bn254_muladd: copy y into the second half of concat_y_z
GuestCopyY ==
    /\ guest.pc = "copy_y"
    /\ guest' = [guest EXCEPT !.concat = CopyWords(guest.concat, NUM_WORDS_PER_FE, guest.y),
                              !.pc = "copy_z"]
    /\ UNCHANGED <<parked, first_trace, rt, codec, plonk, is_included, chip, input, pc, idx, rows, new_byte_lookup_events, rows_and_records,
                   output, state, round>>

\* sys_bn254_muladd: copy z into the result buffer
GuestCopyZ ==
    /\ guest.pc = "copy_z"
    /\ guest' = [guest EXCEPT !.result = CopyWords(guest.result, 0, ResultSeed(guest)),
                              !.pc = "ecall"]
    /\ UNCHANGED <<parked, first_trace, rt, codec, plonk, is_included, chip, input, pc, idx, rows, new_byte_lookup_events, rows_and_records,
                   output, state, round>>

\* syscall_uint256_muladd(result, concat): the executor reads the destination
\* and the two operands, writes (x + a*b) mod p over the destination and
\* records the event in the shard
GuestSyscall ==
    /\ guest.pc = "ecall"
    /\ LET x == WordsToBigUint(guest.result)
           a == WordsToBigUint(SubSeq(guest.concat, 1, NUM_WORDS_PER_FE))
           b == WordsToBigUint(SubSeq(guest.concat, NUM_WORDS_PER_FE + 1, 2 * NUM_WORDS_PER_FE))
           event == ArithEvent("Bn254MulAdd", 1, 8 * (NumEvents + 1), x, a, b)
       IN  /\ guest' = [guest EXCEPT
                            !.result = [i \in 1..NUM_WORDS_PER_FE |->
                                            event.x_memory_records[i].value],
                            !.pc = "returned"]
           /\ input' = [input EXCEPT !.events = Append(input.events, event)]
    /\ UNCHANGED <<parked, first_trace, rt, codec, plonk, is_included, chip, pc, idx, rows, new_byte_lookup_events, rows_and_records,
                   output, state, round>>

-----------------------------------------------------------------------------
(* Constraint evaluation.  A constraint gated by when(c) is c * (lhs - rhs) *)
(* = 0; residues are listed in the order eval asserts them.                *)

\* when_first_row().assert_zero(local.nonce);
\* when_transition().assert_eq(local.nonce + 1, next.nonce)
NonceConstraints(local, next, is_first_row, is_transition) ==
    /\ is_first_row => local.nonce = 0
    /\ is_transition => (local.nonce + 1) % FIELD_ORDER = next.nonce

\* Bn254MulAddChip::eval: the residues of its arithmetic constraints
Bn254MulAddEvalResidues(local) ==
    LET x_limbs == limbs_from_prev_access(local.x_memory)
        a_limbs == value_as_limbs(local.a_memory)
        b_limbs == value_as_limbs(local.b_memory)
        written == value_as_limbs(local.x_memory)
    IN  <<FieldOpResidue(local.a_mul_b, a_limbs, b_limbs, "Mul", local.is_real),
          FieldOpResidue(local.add_eval, x_limbs, local.a_mul_b.result, "Add", local.is_real)>>
        \o [k \in 1..NUM_LIMBS |-> local.is_real * (local.add_eval.result[k] - written[k])]

\* Bn254ScalarMulAddChip::eval: the residues of its arithmetic constraints
Bn254ScalarMulAddEvalResidues(local) ==
    LET x == limbs_from_prev_access(local.x_memory)
        a == limbs_from_prev_access(local.a_memory)
        b == limbs_from_prev_access(local.b_memory)
    IN  <<FieldOpResidue(local.a_mul_b, a, b, "Mul", local.is_real),
          FieldOpResidue(local.add_eval, x, local.a_mul_b.result, "Add", local.is_real)>>
        \o [k \in 1..NUM_LIMBS |->
               local.is_real
               * (local.add_eval.result[k]
                  - local.x_memory[((k - 1) \div BYTES_PER_WORD) + 1].value[((k - 1) % BYTES_PER_WORD) + 1])]

\* Bn254ScalarMacChip::eval asserts no arithmetic constraint
Bn254ScalarMacEvalResidues(local) == <<>>

\* the arguments of one eval_memory_access_slice call
MemoryAccessSlice(shard, clk, ptr, memory_access, is_real) ==
    [shard |-> shard, clk |-> clk, ptr |-> ptr, memory_access |-> memory_access,
     is_real |-> is_real]

\* MemCopyChip::eval: the residues of assert_all_eq(src values, dst values) under is_real
MemCopyEvalResidues(local) ==
    LET src == value_as_limbs(local.src_access)
        dst == value_as_limbs(local.dst_access)
    IN  [k \in 1..Len(src) |-> local.is_real * (src[k] - dst[k])]

\* MemCopyChip::eval: its two eval_memory_access_slice calls, source then destination
MemCopyEvalAccesses(local) ==
    <<MemoryAccessSlice(local.shard, local.clk, local.src_ptr, local.src_access,
                        local.is_real),
      MemoryAccessSlice(local.shard, (local.clk + 1) % FIELD_ORDER, local.dst_ptr,
                        local.dst_access, local.is_real)>>

\* main.row_slice(1): the row after row i, the last row wrapping to the first
NextRow(m, i) == m[(i % Len(m)) + 1]

AssertBool(x) == (x * (x - 1)) % FIELD_ORDER = 0

\* PoseidonChip::eval_execution_context
eval_execution_context(local, next, is_first_row, is_transition) ==
    /\ AssertBool(local.is_real)
    /\ AssertBool(local.is_arithmetic)
    /\ AssertBool(local.is_memory_op)
    /\ AssertBool(local.is_binary)
    /\ NonceConstraints(local, next, is_first_row, is_transition)
    /\ local.is_real # 0 => next.clk = FAdd(local.clk, 1)
    /\ (is_transition /\ local.is_real # 0) => local.shard = next.shard

\* the round type eval derives from the round counter
EvalIsFull(round_ctr) ==
    LET half_full == FULL_ROUNDS \div 2
        partial_end == half_full + PARTIAL_ROUNDS
    IN  IF round_ctr < half_full \/ round_ctr >= partial_end THEN 1 ELSE 0

\* PoseidonChip::eval_round_constraints
eval_round_constraints(local, next, is_first_row, is_transition) ==
    /\ is_first_row => local.round_ctr = 0
    /\ is_transition => FAdd(local.round_ctr, 1) = next.round_ctr
    /\ local.is_full_round = EvalIsFull(local.round_ctr)

\* PoseidonChip::eval_state_transition
eval_state_transition(local) ==
    /\ \A i \in 1..WIDTH : local.ark_state[i] = FAdd(local.state[i], local.round_constants[i])
    /\ local.sbox_state[1] = Sbox(local.ark_state[1])
    /\ \A i \in 2..WIDTH :
          local.sbox_state[i] =
              (IF local.is_full_round # 0 THEN Sbox(local.ark_state[i]) ELSE local.ark_state[i])
    /\ \A i \in 1..WIDTH : local.mix_state[i] = MdsSum(local.sbox_state, i, WIDTH)
    /\ \A i \in 1..WIDTH : local.next_state[i] = local.mix_state[i]

\* PoseidonChip::eval_memory_constraints (its receive calls assert nothing on the row)
eval_memory_constraints(local) ==
    local.is_memory_op # 0 =>
        /\ AssertBool(local.is_input_op)
        /\ AssertBool(local.is_output_op)
        /\ local.input_ptr % BYTES_PER_WORD = 0
        /\ local.output_ptr % BYTES_PER_WORD = 0

\* PoseidonChip::eval_state_update
eval_state_update(local, next, is_transition) ==
    /\ is_transition => \A i \in 1..WIDTH : local.next_state[i] = next.state[i]
    /\ local.is_output_op # 0 => local.next_state[1] = local.output_value

\* Air::eval of PoseidonChip on row i of the matrix m
PoseidonEval(m, i) ==
    LET local == m[i]
        next == NextRow(m, i)
        is_first_row == (i = 1)
        is_transition == (i < Len(m))
    IN  /\ eval_execution_context(local, next, is_first_row, is_transition)
        /\ eval_round_constraints(local, next, is_first_row, is_transition)
        /\ eval_state_transition(local)
        /\ eval_memory_constraints(local)
        /\ eval_state_update(local, next, is_transition)

-----------------------------------------------------------------------------
(* Interactions the evaluators declare for one row.  A receive gated by    *)
(* when(c) has multiplicity c * multiplicity.                              *)

\* one receive: its kind, its values and its multiplicity
Interaction(kind, shard, clk, nonce, syscall_id, arg1, arg2, multiplicity) ==
    [kind |-> kind, shard |-> shard, clk |-> clk, nonce |-> nonce,
     syscall_id |-> syscall_id, arg1 |-> arg1, arg2 |-> arg2,
     multiplicity |-> multiplicity]

\* MemCopyChip::syscall_id
MemCopySyscallId(c) == IF c = "MemCopy32" THEN "MEMCPY_32" ELSE "MEMCPY_64"

\* Bn254MulAddChip::eval: receive_syscall
Bn254MulAddInteractions(local) ==
    <<Interaction("Syscall", local.shard, local.clk, Some(local.nonce), "BN254_MULADD",
                  local.x_ptr, local.y_ptr, local.is_real)>>

\* Bn254ScalarMulAddChip::eval: receive_syscall
Bn254ScalarMulAddInteractions(local) ==
    <<Interaction("Syscall", local.shard, local.clk, Some(local.nonce),
                  "BN254_SCALAR_MULADD", local.x_ptr, local.y_ptr, local.is_real)>>

\* Bn254ScalarMacChip::eval: receive_syscall (no nonce argument)
Bn254ScalarMacInteractions(local) ==
    <<Interaction("Syscall", local.shard, local.clk, None, "BN254_SCALAR_MAC",
                  local.arg1_ptr, local.arg2_ptr, local.is_real)>>

\* MemCopyChip::eval: receive_syscall (no nonce argument)
MemCopyInteractions(c, local) ==
    <<Interaction("Syscall", local.shard, local.clk, None, MemCopySyscallId(c),
                  local.src_ptr, local.dst_ptr, local.is_real)>>

\* PoseidonChip::eval_memory_constraints: when(is_input_op).receive(.., Read) and
\* when(is_output_op).receive(.., Write)
PoseidonInteractions(local) ==
    <<Interaction("Read", local.shard, local.clk, Some(local.nonce), "POSEIDON",
                  local.input_ptr, local.output_ptr,
                  FMul(local.is_input_op, local.is_real)),
      Interaction("Write", local.shard, local.clk, Some(local.nonce), "POSEIDON",
                  local.input_ptr, local.output_ptr,
                  FMul(local.is_output_op, local.is_real))>>

\* the interactions eval of chip c declares for the row local
EvalInteractions(c, local) ==
    CASE c = "Bn254MulAdd" -> Bn254MulAddInteractions(local)
      [] c = "Bn254ScalarMulAdd" -> Bn254ScalarMulAddInteractions(local)
      [] c = "Bn254ScalarMac" -> Bn254ScalarMacInteractions(local)
      [] c \in MemCopyChips -> MemCopyInteractions(c, local)
      [] OTHER -> PoseidonInteractions(local)

-----------------------------------------------------------------------------
(* The executor side of the scalar multiply-add syscall.                   *)

\* the syscall codes of the precompiles
SyscallCodes ==
    {"BN254_MULADD", "BN254_SCALAR_MULADD", "BN254_SCALAR_MAC", "MEMCPY_32", "MEMCPY_64",
     "POSEIDON"}

\* Syscall::num_extra_cycles of Bn254ScalarMulAddSyscall
num_extra_cycles == 1

\* the clock cycles of one instruction
InstructionCycles == 4

\* pointer arguments a guest passes: word aligned and not
ExecPointers == {XPtr, XPtr + 1, YPtr, YPtr + 2}

\* (x, a, b) the guest memory holds at the pointers
ExecOperands == {<<4, 2, 3>>, <<MODULUS - 1, MODULUS - 1, MODULUS - 2>>}

\* a pointer accepted by the recorder
IsAlignedAlways(ptr) == TRUE

IsAligned(ptr) == ptr % BYTES_PER_WORD = 0

\* create_bn254_scalar_arith_event: aborts on a misaligned pointer; otherwise
\* reads the two operand pointers and the operands at the clock of the
\* context, advances the clock by one and writes the destination
create_bn254_scalar_arith_event(r, arg1, arg2, op, ops) ==
    IF ~(IsAligned(arg1) /\ IsAligned(arg2))
    THEN [panicked |-> TRUE]
    ELSE LET xw == BigUintToWords(ops[1], NUM_WORDS_PER_FE)
             aw == BigUintToWords(ops[2], NUM_WORDS_PER_FE)
             bw == BigUintToWords(ops[3], NUM_WORDS_PER_FE)
             rw == BigUintToWords((ops[1] + ((ops[2] * ops[3]) % MODULUS)) % MODULUS,
                                  NUM_WORDS_PER_FE)
         IN  [panicked |-> FALSE,
              clk |-> r.clk + 1,
              next_lookup_id |-> r.next_lookup_id + 1,
              event |->
                 [lookup_id |-> r.next_lookup_id, shard |-> r.shard, clk |-> r.clk,
                  op |-> op, x_ptr |-> arg1, y_ptr |-> arg2,
                  x |-> xw, a |-> aw, b |-> bw,
                  arg2_memory_records |->
                     <<MemoryReadRecord(arg2, 1, APtr, r.clk),
                       MemoryReadRecord(arg2, 2, BPtr, r.clk)>>,
                  a_memory_records |->
                     [i \in 1..NUM_WORDS_PER_FE |-> MemoryReadRecord(APtr, i, aw[i], r.clk)],
                  b_memory_records |->
                     [i \in 1..NUM_WORDS_PER_FE |-> MemoryReadRecord(BPtr, i, bw[i], r.clk)],
                  x_memory_records |->
                     [i \in 1..NUM_WORDS_PER_FE |->
                         MemoryWriteRecord(arg1, i, xw[i], rw[i], r.clk + 1)]]]

\* Executor::syscall_event
syscall_event(clk, syscall_id, arg1, arg2, lookup_id) ==
    [clk |-> clk, syscall_id |-> syscall_id, arg1 |-> arg1, arg2 |-> arg2,
     lookup_id |-> lookup_id]

\* ExecutionRecord::add_precompile_event
add_precompile_event(record, syscall_code, sys_event, event) ==
    [record EXCEPT ![syscall_code] = Append(@, [syscall_event |-> sys_event, event |-> event])]

\* PrecompileEvent::Bn254ScalarMulAdd(event)
PrecompileEvent(variant, event) == [variant |-> variant, event |-> event]

\* the clock read after the arithmetic event has been created
EntryClkAfterEvent(r) == r.clk + 1

\* let start_clk = rt.clk
EntryClk(r) == r.clk

\* Bn254ScalarMulAddSyscall::execute on the context r: the context after the
\* call; a panic of the event creation unwinds through execute
Bn254ScalarMulAddExecute(r, syscall_code, arg1, arg2, ops) ==
    LET start_clk == EntryClk(r)
        created == create_bn254_scalar_arith_event(r, arg1, arg2, "MulAdd", ops)
    IN  IF created.panicked
        THEN [r EXCEPT !.pc = "aborted", !.result = None]
        ELSE LET sys_event == syscall_event(start_clk, syscall_code, arg1, arg2,
                                            created.event.lookup_id)
             IN  [r EXCEPT
                    !.pc = "returned",
                    !.clk = created.clk,
                    !.next_lookup_id = created.next_lookup_id,
                    !.record = add_precompile_event(
                                   @, syscall_code, sys_event,
                                   PrecompileEvent("Bn254ScalarMulAdd", created.event)),
                    !.result = Some(None)]

\* the executor before the first instruction
RtInit ==
    [pc |-> "running", shard |-> 1, state_clk |-> 0, clk |-> 0, calls |-> 0,
     syscall_code |-> "BN254_SCALAR_MULADD", arg1 |-> 0, arg2 |-> 0,
     next_lookup_id |-> 1, record |-> [c \in SyscallCodes |-> <<>>], result |-> None]

\* the executor reaches an ecall of BN254_SCALAR_MULADD: it makes the syscall
\* context from its state, runs execute and, when execute returns, adds the
\* cycles of the instruction and the extra cycles the syscall declares
Ecall ==
    /\ rt.pc = "running"
    /\ rt.calls < MaxCalls
    /\ \E arg1 \in ExecPointers, arg2 \in ExecPointers, ops \in ExecOperands :
          LET context == [rt EXCEPT !.clk = rt.state_clk, !.calls = @ + 1,
                                    !.arg1 = arg1, !.arg2 = arg2]
              after == Bn254ScalarMulAddExecute(context, rt.syscall_code, arg1, arg2, ops)
          IN  rt' = IF after.pc = "aborted" THEN after
                    ELSE [after EXCEPT
                            !.pc = "running",
                            !.state_clk = @ + InstructionCycles + num_extra_cycles]
    /\ UNCHANGED <<parked, first_trace, codec, plonk, is_included, chip, input, pc, idx, rows,
                   new_byte_lookup_events, rows_and_records, output, state, round, guest>>

\* the execution pass ends and its record goes to the trace builders
ExecFinish ==
    /\ rt.pc = "running"
    /\ rt' = [rt EXCEPT !.pc = "finished"]
    /\ UNCHANGED <<parked, first_trace, codec, plonk, is_included, chip, input, pc, idx, rows,
                   new_byte_lookup_events, rows_and_records, output, state, round, guest>>

-----------------------------------------------------------------------------
(* The verdict of an evaluator on a whole matrix.                          *)

\* every residue of a list is zero
AllZero(residues) == \A k \in 1..Len(residues) : residues[k] = 0

\* Air::eval of chip c on row i of the matrix m: TRUE when every constraint
\* the evaluator asserts itself holds on the row
EvalRow(c, m, i) ==
    LET local == m[i]
        next == NextRow(m, i)
        is_first_row == (i = 1)
        is_transition == (i < Len(m))
    IN  CASE c = "Bn254MulAdd" ->
               /\ NonceConstraints(local, next, is_first_row, is_transition)
               /\ AllZero(Bn254MulAddEvalResidues(local))
               /\ AssertBool(local.is_real)
          [] c = "Bn254ScalarMulAdd" ->
               /\ NonceConstraints(local, next, is_first_row, is_transition)
               /\ AssertBool(local.is_real)
               /\ AllZero(Bn254ScalarMulAddEvalResidues(local))
          [] c = "Bn254ScalarMac" ->
               /\ AssertBool(local.is_real)
               /\ AllZero(Bn254ScalarMacEvalResidues(local))
          [] c \in MemCopyChips -> AllZero(MemCopyEvalResidues(local))
          [] OTHER -> PoseidonEval(m, i)

\* the verdict on the matrix m: accepted when every row passes
EvalAccepts(c, m) == \A i \in 1..Len(m) : EvalRow(c, m, i)

\* generate_trace is called a second time on the same input record, with a
\* fresh output record; the first matrix and its verdict are kept aside
SecondRun ==
    /\ pc = "done"
    /\ first_trace = None
    /\ first_trace' = Some([rows |-> rows, accepted |-> EvalAccepts(chip, rows)])
    /\ pc' = "start"
    /\ idx' = 1
    /\ rows' = <<>>
    /\ new_byte_lookup_events' = <<>>
    /\ rows_and_records' = <<>>
    /\ output' = <<>>
    /\ state' = Zeros(WIDTH)
    /\ round' = 0
    /\ UNCHANGED <<parked, rt, codec, plonk, is_included, chip, input, guest>>

-----------------------------------------------------------------------------
(* Conversions between a 256-bit integer, its 32 bytes and its 8 words.    *)

\* bytes.resize(32, 0) / [u8; 32]
UINT256_BYTES == NUM_WORDS_PER_FE * BYTES_PER_WORD

\* BigUint::to_bytes_le: the little-endian bytes without leading zeros (one
\* zero byte for 0)
RECURSIVE ToBytesLe(_)
ToBytesLe(x) ==
    IF x < BYTE_BASE THEN <<x>> ELSE <<x % BYTE_BASE>> \o ToBytesLe(x \div BYTE_BASE)

\* Vec::resize(n, 0): truncate to n bytes or pad with zeros up to n
Resize(bytes, n) ==
    IF Len(bytes) >= n THEN SubSeq(bytes, 1, n) ELSE bytes \o Zeros(n - Len(bytes))

\* the bytes of the integer without the zero padding
biguint_to_bytes_le_unpadded(x) == ToBytesLe(x)

\* biguint_to_bytes_le
biguint_to_bytes_le(x) == Resize(ToBytesLe(x), UINT256_BYTES)

\* x.as_ptr() as *const [u32; 8]: the bytes seen as little-endian words
BytesToWords(bytes) ==
    [i \in 1..(Len(bytes) \div BYTES_PER_WORD) |->
        BytesToBigUint(SubSeq(bytes, BYTES_PER_WORD * (i - 1) + 1, BYTES_PER_WORD * i))]

\* BigUint::from_bytes_le(&words_to_bytes_le::<32>(words))
DecodeWords(words) == BytesToBigUint(WordsToBytesLe(words))

\* the 8 words encoding an integer
EncodeWords(x) == BytesToWords(biguint_to_bytes_le(x))

\* integers below 2^256 whose words 0, 1, 3 and 4 are set
CodecValues ==
    {a + WORD_BASE * b + (WORD_BASE * WORD_BASE * WORD_BASE) * (c + WORD_BASE * d) :
        a \in {0, 1, WORD_BASE - 1}, b \in {0, 1, WORD_BASE - 1},
        c \in {0, 1, WORD_BASE - 1}, d \in {0, 1}}

\* 8-word arrays whose words 0, 1, 3 and 4 are set
CodecWords ==
    {[i \in 1..NUM_WORDS_PER_FE |->
         CASE i = 1 -> a [] i = 2 -> b [] i = 4 -> c [] i = 5 -> d [] OTHER -> 0] :
        a \in {0, 1, WORD_BASE - 1}, b \in {0, 1, WORD_BASE - 1},
        c \in {0, 1, WORD_BASE - 1}, d \in {0, 1}}

\* the integer is encoded to its 32 bytes and these are taken as 8 words
Encode ==
    /\ codec.pc = "encode"
    /\ codec' = [codec EXCEPT
                    !.bytes = biguint_to_bytes_le(codec.value),
                    !.words = EncodeWords(codec.value),
                    !.pc = IF codec.origin = "value" THEN "decode" ELSE "done"]
    /\ UNCHANGED <<parked, first_trace, rt, plonk, is_included, chip, input, pc, idx, rows,
                   new_byte_lookup_events, rows_and_records, output, state, round, guest>>

\* the 8 words are decoded to a big integer
Decode ==
    /\ codec.pc = "decode"
    /\ codec' = [codec EXCEPT
                    !.value = DecodeWords(codec.words),
                    !.pc = IF codec.origin = "words" THEN "encode" ELSE "done"]
    /\ UNCHANGED <<parked, first_trace, rt, plonk, is_included, chip, input, pc, idx, rows,
                   new_byte_lookup_events, rows_and_records, output, state, round, guest>>

-----------------------------------------------------------------------------
(* PlonkVerifier::verify.  A proof is its leading bytes (at most 4, the    *)
(* vkey-hash prefix) and what follows them; a verifying key is named and   *)
(* is decodable or not.  An outcome is "Ok", an error value or "panic".    *)

\* the length of the vkey-hash prefix of a proof
VKEY_HASH_PREFIX == 4

\* the verifying keys of the model
PlonkVks == [name : {"vk_a", "vk_b"}, decodable : BOOLEAN]

\* Sha256::digest(plonk_vk)[..4]: distinct keys have distinct prefixes here
Sha256Prefix(vk) ==
    <<IF vk.name = "vk_a" THEN 1 ELSE 0, IF vk.decodable THEN 1 ELSE 0, 1, 0>>

\* the leading bytes of the proofs of the model: too short, or 4 bytes
\* holding the prefix of some key or of none
ProofPrefixes ==
    {<<>>, <<1>>, <<1, 1, 1>>, <<0, 0, 0, 0>>} \cup {Sha256Prefix(vk) : vk \in PlonkVks}

\* what follows the prefix: undecodable bytes, a proof the algebraic check
\* rejects, a proof it accepts
ProofBodies == {"garbage", "invalid", "valid"}

\* the proofs of the model: nothing follows leading bytes that are fewer than 4
Proofs ==
    {[prefix |-> p, body |-> IF Len(p) < VKEY_HASH_PREFIX THEN "none" ELSE b] :
        p \in ProofPrefixes, b \in ProofBodies}

\* proof.len()
ProofLen(proof) ==
    Len(proof.prefix)
    + (CASE proof.body = "none" -> 0 [] proof.body = "garbage" -> 1 [] OTHER -> 2)

\* decode_sp1_vkey_hash(sp1_vkey_hash)
decode_sp1_vkey_hash(sp1_vkey_hash) ==
    IF sp1_vkey_hash.decodable THEN "Ok" ELSE "Err(GeneralError)"

\* load_plonk_verifying_key_from_bytes(plonk_vk)
load_plonk_verifying_key_from_bytes(vk) == IF vk.decodable THEN "Ok" ELSE "Err"

\* load_plonk_proof_from_bytes(proof, ..)
load_plonk_proof_from_bytes(body) == IF body = "garbage" THEN "Err" ELSE "Ok"

\* Fr::from_slice of the two public inputs
FrFromSlice(sp1_vkey_hash) == IF sp1_vkey_hash.in_field THEN "Ok" ELSE "Err"

\* verify_plonk_algebraic
verify_plonk_algebraic(body) == IF body = "valid" THEN "Ok" ELSE "Err(verification)"

\* PlonkVerifier::verify_gnark_proof: each unwrap of an Err panics
verify_gnark_proof(body, sp1_vkey_hash, plonk_vk) ==
    IF load_plonk_verifying_key_from_bytes(plonk_vk) # "Ok" THEN "panic"
    ELSE IF load_plonk_proof_from_bytes(body) # "Ok" THEN "panic"
    ELSE IF FrFromSlice(sp1_vkey_hash) # "Ok" THEN "panic"
    ELSE verify_plonk_algebraic(body)

\* PlonkVerifier::verify: proof[..4] panics when the proof is shorter than 4 bytes
verify(proof, sp1_vkey_hash, plonk_vk) ==
    LET plonk_vk_hash == Sha256Prefix(plonk_vk)
    IN  IF ProofLen(proof) < VKEY_HASH_PREFIX THEN "panic"
        ELSE IF plonk_vk_hash # SubSeq(proof.prefix, 1, VKEY_HASH_PREFIX)
        THEN "Err(PlonkVkeyHashMismatch)"
        ELSE IF decode_sp1_vkey_hash(sp1_vkey_hash) # "Ok"
        THEN decode_sp1_vkey_hash(sp1_vkey_hash)
        ELSE verify_gnark_proof(proof.body, sp1_vkey_hash, plonk_vk)

\* one call of PlonkVerifier::verify
Verify ==
    /\ plonk.pc = "call"
    /\ plonk' = [plonk EXCEPT
                    !.pc = "finished",
                    !.result = verify(plonk.proof, plonk.sp1_vkey_hash, plonk.plonk_vk)]
    /\ UNCHANGED <<parked, first_trace, rt, codec, is_included, chip, input, pc, idx, rows,
                   new_byte_lookup_events, rows_and_records, output, state, round, guest>>

-----------------------------------------------------------------------------
(* What the evaluators assert about flags and hand to the memory primitive. *)

\* the flag columns whose booleanness Air::eval of chip c asserts on the row
\* local: assert_bool calls (those under when(is_memory_op) only where
\* is_memory_op is not zero) and the equation of is_full_round with the 0/1
\* round-type predicate; MemCopyChip::eval has none
BoolAssertions(c, local) ==
    CASE c \in ArithChips -> {"is_real"}
      [] c \in MemCopyChips -> {}
      [] OTHER ->
           {"is_real", "is_arithmetic", "is_memory_op", "is_binary", "is_full_round"}
           \cup (IF local.is_memory_op # 0 THEN {"is_input_op", "is_output_op"} ELSE {})

\* Bn254MulAddChip::eval: its eval_memory_access_slice calls
Bn254MulAddEvalAccesses(local) ==
    <<MemoryAccessSlice(local.shard, (local.clk + 1) % FIELD_ORDER, local.x_ptr,
                        local.x_memory, local.is_real),
      MemoryAccessSlice(local.shard, local.clk, local.y_ptr,
                        local.a_memory \o local.b_memory, local.is_real)>>

\* Bn254ScalarMulAddChip::eval: its eval_memory_access_slice calls
Bn254ScalarMulAddEvalAccesses(local) ==
    LET a_ptr == BytesToBigUint(local.a_ptr_memory.value) % FIELD_ORDER
        b_ptr == BytesToBigUint(local.b_ptr_memory.value) % FIELD_ORDER
    IN  <<MemoryAccessSlice(local.shard, (local.clk + 1) % FIELD_ORDER, local.x_ptr,
                            local.x_memory, local.is_real),
          MemoryAccessSlice(local.shard, local.clk, local.y_ptr,
                            <<local.a_ptr_memory, local.b_ptr_memory>>, local.is_real),
          MemoryAccessSlice(local.shard, local.clk, a_ptr, local.a_memory, local.is_real),
          MemoryAccessSlice(local.shard, local.clk, b_ptr, local.b_memory, local.is_real)>>

\* Bn254ScalarMacChip::eval calls eval_memory_access_slice for no column group
Bn254ScalarMacEvalAccesses(local) == <<>>

\* the eval_memory_access_slice calls of Air::eval of chip c on the row local
EvalAccesses(c, local) ==
    CASE c = "Bn254MulAdd" -> Bn254MulAddEvalAccesses(local)
      [] c = "Bn254ScalarMulAdd" -> Bn254ScalarMulAddEvalAccesses(local)
      [] c = "Bn254ScalarMac" -> Bn254ScalarMacEvalAccesses(local)
      [] OTHER -> MemCopyEvalAccesses(local)

-----------------------------------------------------------------------------
(* Two generate_trace calls of different chips on one shard, sharing the   *)
(* output record.  The call taking steps owns the variables of a call; the *)
(* locals of the other are parked.                                         *)

\* the locals and arguments of the call that is taking steps
CallLocals ==
    [chip |-> chip, input |-> input, pc |-> pc, idx |-> idx, rows |-> rows,
     new_byte_lookup_events |-> new_byte_lookup_events,
     rows_and_records |-> rows_and_records]

\* the scheduler passes from the running call to the parked one, which has
\* not returned yet; the output record is the same for both
Switch ==
    /\ parked # None
    /\ parked[1].pc # "done"
    /\ chip' = parked[1].chip
    /\ input' = parked[1].input
    /\ pc' = parked[1].pc
    /\ idx' = parked[1].idx
    /\ rows' = parked[1].rows
    /\ new_byte_lookup_events' = parked[1].new_byte_lookup_events
    /\ rows_and_records' = parked[1].rows_and_records
    /\ parked' = Some(CallLocals)
    /\ UNCHANGED <<first_trace, rt, codec, plonk, is_included, output, state, round, guest>>

-----------------------------------------------------------------------------
(* The two trace builders of the hash chip on one shard.                   *)

\* the other builder of the hash chip
OtherBuilder(c) == IF c = "Poseidon" THEN "PoseidonTrace" ELSE "Poseidon"

\* the MachineAir builder of the hash chip has returned; its call is kept aside
\* and the builder of trace.rs is called on the same input record with a fresh
\* output record
RunOtherBuilder ==
    /\ pc = "done"
    /\ chip = "Poseidon"
    /\ parked = None
    /\ first_trace = None
    /\ parked' = Some(CallLocals)
    /\ chip' = OtherBuilder(chip)
    /\ pc' = "start"
    /\ idx' = 1
    /\ rows' = <<>>
    /\ new_byte_lookup_events' = <<>>
    /\ rows_and_records' = <<>>
    /\ output' = <<>>
    /\ state' = Zeros(WIDTH)
    /\ round' = 0
    /\ UNCHANGED <<first_trace, rt, codec, plonk, is_included, input, guest>>

-----------------------------------------------------------------------------
(* Initial states and specifications.                                      *)

\* (x, a, b) of the multiply-add events of a shard
ArithOperandPool == {<<4, 2, 3>>, <<MODULUS - 1, MODULUS - 1, MODULUS - 2>>}

\* source word patterns of the memory-copy events of a shard
WordPattern(k, n) == [i \in 1..n |-> (k * i) % WORD_BASE]
MemCopyPool == {1, 3}

\* first input words of the Poseidon events of a shard
PoseidonSeeds == {1, 5}

ClkOf(i) == 8 * i

\* the events of a shard of chip c built from the chosen operands
ShardEvents(c, ops) ==
    [i \in 1..Len(ops) |->
        CASE c \in ArithChips -> ArithEvent(c, 1, ClkOf(i), ops[i][1], ops[i][2], ops[i][3])
          [] c \in MemCopyChips ->
                MemCopyEvent(1, ClkOf(i), WordPattern(ops[i], NumWords(c)),
                             WordPattern(ops[i] + 1, NumWords(c)))
          [] OTHER -> PoseidonEvent(1, ClkOf(i), <<ops[i], ops[i] + 1, ops[i] + 2>>)]

OperandPool(c) ==
    CASE c \in ArithChips -> ArithOperandPool
      [] c \in MemCopyChips -> MemCopyPool
      [] OTHER -> PoseidonSeeds

MaxShardEvents(c) == IF c \in PoseidonChips THEN MaxPoseidonEvents ELSE MaxEvents

\* the shape hints a shard with n events of the chip's kind can carry: none, one
\* that does not name the chip (only when the shard has no such event), or one
\* that fixes a height the events fit in
Shapes(n) ==
    {None}
    \cup (IF n = 0 THEN {Some([has |-> FALSE, log2 |-> 0])} ELSE {})
    \cup {Some([has |-> TRUE, log2 |-> k]) : k \in {j \in 0..MaxLog2 : Pow2(j) >= n}}

InitLocals ==
    /\ pc = "included"
    /\ is_included = None
    /\ idx = 1
    /\ rows = <<>>
    /\ new_byte_lookup_events = <<>>
    /\ rows_and_records = <<>>
    /\ output = <<>>
    /\ state = Zeros(WIDTH)
    /\ round = 0
    /\ first_trace = None
    /\ parked = None

Init ==
    /\ chip \in Chips
    /\ \E n \in 0..MaxShardEvents(chip) :
          \E ops \in [1..n -> OperandPool(chip)] :
             \E shape \in Shapes(n) :
                input = [events |-> ShardEvents(chip, ops), shape |-> shape]
    /\ InitLocals
    /\ guest = GuestIdle
    /\ rt = RtIdle
    /\ codec = CodecIdle
    /\ plonk = PlonkIdle

Next ==
    \/ Included
    \/ Start
    \/ EventLoop
    \/ ChunkMap
    \/ ChunkMerge
    \/ Flush
    \/ PadRowsFixed
    \/ PoseidonAirRound
    \/ PoseidonTraceRound
    \/ PoseidonPad
    \/ NonceLoop
    \/ SecondRun
    \/ RunOtherBuilder

Spec == Init /\ [][Next]_vars

\* One event per shard, operands over the whole range below the modulus.
ArithOperands ==
    {<<x, a, b>> : x \in {0, 4, MODULUS - 1}, a \in 0..(MODULUS - 1),
                   b \in {0, 1, 2, 3, MODULUS - 2, MODULUS - 1}}

InitArith ==
    /\ chip \in ArithChips
    /\ \E op \in ArithOperands :
          input = [events |-> ShardEvents(chip, <<op>>), shape |-> None]
    /\ InitLocals
    /\ guest = GuestIdle
    /\ rt = RtIdle
    /\ codec = CodecIdle
    /\ plonk = PlonkIdle

NextArith ==
    \/ Included
    \/ Start
    \/ EventLoop
    \/ ChunkMap
    \/ ChunkMerge
    \/ Flush
    \/ PadRowsFixed
    \/ NonceLoop

SpecArith == InitArith /\ [][NextArith]_vars

\* The guest program calls sys_bn254_muladd(result, 0, x, y, z) on a fresh shard.
GuestOperands == 0..MaxGuestOperand

InitGuest ==
    /\ chip = "Bn254MulAdd"
    /\ input = [events |-> <<>>, shape |-> None]
    /\ InitLocals
    /\ \E a \in GuestOperands, b \in GuestOperands, c \in GuestOperands,
          junk \in {0, WORD_BASE - 1} :
          guest = [pc |-> "copy_x",
                   x |-> BigUintToWords(a, NUM_WORDS_PER_FE),
                   y |-> BigUintToWords(b, NUM_WORDS_PER_FE),
                   z |-> BigUintToWords(c, NUM_WORDS_PER_FE),
                   result |-> Zeros(NUM_WORDS_PER_FE),
                   concat |-> [i \in 1..(2 * NUM_WORDS_PER_FE) |-> junk]]
    /\ rt = RtIdle
    /\ codec = CodecIdle
    /\ plonk = PlonkIdle

NextGuest ==
    \/ GuestCopyX
    \/ GuestCopyY
    \/ GuestCopyZ
    \/ GuestSyscall

SpecGuest == InitGuest /\ [][NextGuest]_vars

\* An execution pass of a guest that calls BN254_SCALAR_MULADD up to MaxCalls times.
InitExec ==
    /\ chip = "Bn254ScalarMulAdd"
    /\ input = [events |-> <<>>, shape |-> None]
    /\ InitLocals
    /\ guest = GuestIdle
    /\ rt = RtInit
    /\ codec = CodecIdle
    /\ plonk = PlonkIdle

NextExec ==
    \/ Ecall
    \/ ExecFinish

SpecExec == InitExec /\ [][NextExec]_vars

\* A round trip through the conversions, starting from an integer or from words.
InitCodec ==
    /\ chip = "Bn254MulAdd"
    /\ input = [events |-> <<>>, shape |-> None]
    /\ InitLocals
    /\ guest = GuestIdle
    /\ rt = RtIdle
    /\ plonk = PlonkIdle
    /\ \/ \E v \in CodecValues :
             codec = [pc |-> "encode", origin |-> "value", value0 |-> v, words0 |-> <<>>,
                      value |-> v, bytes |-> <<>>, words |-> <<>>]
       \/ \E w \in CodecWords :
             codec = [pc |-> "decode", origin |-> "words", value0 |-> 0, words0 |-> w,
                      value |-> 0, bytes |-> <<>>, words |-> w]

NextCodec ==
    \/ Encode
    \/ Decode

SpecCodec == InitCodec /\ [][NextCodec]_vars

\* One call of PlonkVerifier::verify on proof bytes, a vkey hash and a verifying key.
InitPlonk ==
    /\ chip = "Bn254MulAdd"
    /\ input = [events |-> <<>>, shape |-> None]
    /\ InitLocals
    /\ guest = GuestIdle
    /\ rt = RtIdle
    /\ codec = CodecIdle
    /\ \E proof \in Proofs, vk \in PlonkVks,
          hash \in [decodable : BOOLEAN, in_field : BOOLEAN] :
          plonk = [pc |-> "call", proof |-> proof,
                   sp1_vkey_hash |-> hash, plonk_vk |-> vk, result |-> "none"]

NextPlonk == Verify

SpecPlonk == InitPlonk /\ [][NextPlonk]_vars

-----------------------------------------------------------------------------
\* chips that build one row per event, in a fixed order: the chunked builder,
\* two builders with an event loop and a flush, with and without a nonce loop,
\* and the memory-copy builder
ParChips == <<"Bn254MulAdd", "Bn254ScalarMulAdd", "Bn254ScalarMac", "MemCopy32">>

\* the shape hint of a shard: none, or one that fixes the height of every chip
ParShapes == {None, Some([has |-> TRUE, log2 |-> MaxLog2])}

\* the views a chip can have of a shard with the given shape hint: its events
\* and the height the hint fixes for it
ParInputs(c, shape) ==
    UNION {{[events |-> ShardEvents(c, [i \in 1..n |-> o]), shape |-> shape] :
               o \in OperandPool(c)} : n \in 0..MaxParEvents}

\* two different chips are about to build their traces from one shard into
\* one output record
InitPar ==
    /\ \E i, j \in 1..Len(ParChips), shape \in ParShapes :
          /\ i < j
          /\ chip = ParChips[i]
          /\ input \in ParInputs(ParChips[i], shape)
          /\ \E in \in ParInputs(ParChips[j], shape) :
                parked = Some([chip |-> ParChips[j], input |-> in, pc |-> "start", idx |-> 1,
                               rows |-> <<>>, new_byte_lookup_events |-> <<>>,
                               rows_and_records |-> <<>>])
    /\ pc = "start"
    /\ is_included = None
    /\ idx = 1
    /\ rows = <<>>
    /\ new_byte_lookup_events = <<>>
    /\ rows_and_records = <<>>
    /\ output = <<>>
    /\ state = Zeros(WIDTH)
    /\ round = 0
    /\ first_trace = None
    /\ guest = GuestIdle
    /\ rt = RtIdle
    /\ codec = CodecIdle
    /\ plonk = PlonkIdle

NextPar ==
    \/ Start
    \/ EventLoop
    \/ ChunkMap
    \/ ChunkMerge
    \/ Flush
    \/ PadRowsFixed
    \/ NonceLoop
    \/ Switch

SpecPar == InitPar /\ [][NextPar]_vars

-----------------------------------------------------------------------------
(* Properties.                                                             *)

Done == pc = "done"

\* a row with its nonce column, when it has one, cleared
WithoutNonce(row) == IF "nonce" \in DOMAIN row THEN [row EXCEPT !.nonce = 0] ELSE row

C2_NonceEqualsRowIndex ==
    Done => \A i \in 1..Len(rows) :
                "nonce" \in DOMAIN rows[i] /\ rows[i].nonce = FromCanonical(i - 1)

\* C3: for the one-row-per-event chips, row i is built from event i for every
\* i below the number of events, these are exactly the rows with is_real = 1,
\* and every later row is a padding row.
C3_RowOrderIsEventOrder ==
    (Done /\ chip \in PadFixedChips) =>
        /\ Len(rows) >= NumEvents
        /\ \A i \in 1..Len(rows) :
              IF i <= NumEvents
              THEN /\ rows[i].is_real = 1
                   /\ rows[i].clk = FromCanonical(input.events[i].clk)
                   /\ WithoutNonce(rows[i]) = WithoutNonce(EventRow(chip, input.events[i]).row)
              ELSE /\ rows[i].is_real = 0
                   /\ WithoutNonce(rows[i]) = PaddingRow(chip)

\* C3 witness: Bn254MulAdd has merged the rows of three one-event chunks and
\* padded them to four rows
C3_Witness ==
    /\ Done
    /\ chip = "Bn254MulAdd"
    /\ NumEvents = 3
    /\ Len(rows_and_records) = 3
    /\ Len(rows) = 4
    /\ input.events[1].x # input.events[3].x
    /\ rows[3].is_real = 1
    /\ rows[4].is_real = 0

\* C4: included(shard) is true exactly when the shard holds at least one event
\* of the chip's kind, whatever the shape hint is.
C4_IncludedIffHasEvents ==
    is_included # None => (is_included[1] <=> Len(input.events) >= 1)

\* the operands the guest passed to sys_bn254_muladd
GuestX == WordsToBigUint(guest.x)
GuestY == WordsToBigUint(guest.y)
GuestZ == WordsToBigUint(guest.z)

\* the number of bytes the little-endian encoding of v needs
RECURSIVE NumBytesOf(_)
NumBytesOf(v) == IF v = 0 THEN 0 ELSE 1 + NumBytesOf(v \div BYTE_BASE)

ArithEvalResidues(c, local) ==
    IF c = "Bn254MulAdd" THEN Bn254MulAddEvalResidues(local)
    ELSE Bn254ScalarMulAddEvalResidues(local)

RoundsPerEvent == FULL_ROUNDS + PARTIAL_ROUNDS

\* C8: each Poseidon invocation produces exactly 65 consecutive real rows with
\* round_ctr 0, 1, ..., 64 in order; the row of round r has is_full_round = 1
\* exactly when r < 4 or r >= 61, whatever the input.
C8_RoundRows ==
    (Done /\ chip \in PoseidonChips) =>
        /\ Len(rows) >= 65 * NumEvents
        /\ \A i \in 1..Len(rows) :
              IF i <= 65 * NumEvents
              THEN LET r == (i - 1) % 65
                   IN  /\ rows[i].is_real = 1
                       /\ rows[i].round_ctr = r
                       /\ rows[i].is_full_round = (IF r < 4 \/ r >= 61 THEN 1 ELSE 0)
                       /\ rows[i].clk = FromCanonical(input.events[((i - 1) \div 65) + 1].clk)
              ELSE rows[i].is_real = 0

\* C8 witness: a trace of two invocations with different inputs, the second
\* one starting at row 65
C8_Witness ==
    /\ Done
    /\ chip \in PoseidonChips
    /\ NumEvents = 2
    /\ input.events[1].input # input.events[2].input
    /\ rows[66].round_ctr = 0
    /\ rows[66].is_full_round = 1
    /\ rows[70].is_full_round = 0
    /\ rows[130].round_ctr = 64
    /\ rows[131].is_real = 0

\* C9: for a shard with one Poseidon event the matrix generate_trace produces
\* satisfies every constraint of PoseidonChip's eval on every row and every
\* pair of adjacent rows, padding rows included.
C9_TraceSatisfiesEval ==
    (Done /\ chip \in PoseidonChips /\ NumEvents = 1) =>
        \A i \in 1..Len(rows) : PoseidonEval(rows, i)

\* the number of field elements of a row of PoseidonCols
PoseidonRowWidth(row) ==
    LET arrays == {"state", "round_constants", "ark_state", "sbox_state",
                   "mix_state", "next_state"}
    IN  Cardinality(DOMAIN row \ arrays) + WIDTH * Cardinality(DOMAIN row \cap arrays)

\* C10: for a shard with exactly one Poseidon event generate_trace returns a
\* matrix of height FULL_ROUNDS + PARTIAL_ROUNDS = 65 and width NUM_COLS.
C10_HeightIsRoundCount ==
    (Done /\ chip \in PoseidonChips /\ NumEvents = 1) =>
        /\ Len(rows) = RoundsPerEvent
        /\ \A i \in 1..Len(rows) : PoseidonRowWidth(rows[i]) = NUM_COLS

-----------------------------------------------------------------------------
\* the syscall code a chip serves and the two pointer columns of its rows
SyscallIdOf(c) ==
    CASE c = "Bn254MulAdd" -> "BN254_MULADD"
      [] c = "Bn254ScalarMulAdd" -> "BN254_SCALAR_MULADD"
      [] c = "Bn254ScalarMac" -> "BN254_SCALAR_MAC"
      [] c \in MemCopyChips -> MemCopySyscallId(c)
      [] OTHER -> "POSEIDON"

FirstPtr(c, row) ==
    CASE c \in {"Bn254MulAdd", "Bn254ScalarMulAdd"} -> row.x_ptr
      [] c = "Bn254ScalarMac" -> row.arg1_ptr
      [] c \in MemCopyChips -> row.src_ptr
      [] OTHER -> row.input_ptr

SecondPtr(c, row) ==
    CASE c \in {"Bn254MulAdd", "Bn254ScalarMulAdd"} -> row.y_ptr
      [] c = "Bn254ScalarMac" -> row.arg2_ptr
      [] c \in MemCopyChips -> row.dst_ptr
      [] OTHER -> row.output_ptr

\* the receives of a row that count in the interaction argument (multiplicity not 0)
LiveInteractions(c, row) ==
    LET ints == EvalInteractions(c, row)
    IN  {k \in 1..Len(ints) : ints[k].multiplicity # 0}

\* C11: every real row of every chip (each of the 65 rows of a hash invocation
\* included) emits exactly one receive, carrying the row's shard, clk, syscall
\* id and two pointer arguments with multiplicity is_real = 1, and every
\* padding row emits none.  (The kind of the receive is not compared.)
C11_OneReceivePerRealRow ==
    Done =>
        \A i \in 1..Len(rows) :
            LET ints == EvalInteractions(chip, rows[i])
                live == LiveInteractions(chip, rows[i])
            IN  IF rows[i].is_real = 1
                THEN /\ Cardinality(live) = 1
                     /\ \A k \in live :
                           /\ ints[k].multiplicity = 1
                           /\ ints[k].shard = rows[i].shard
                           /\ ints[k].clk = rows[i].clk
                           /\ ints[k].syscall_id = SyscallIdOf(chip)
                           /\ ints[k].arg1 = FirstPtr(chip, rows[i])
                           /\ ints[k].arg2 = SecondPtr(chip, rows[i])
                ELSE live = {}

-----------------------------------------------------------------------------
\* the entries of the record under every syscall code but one
OtherEntries(r, code) == [c \in SyscallCodes \ {code} |-> r.record[c]]

\* an ecall whose execute returned
Returned == rt'.calls = rt.calls + 1 /\ rt'.pc # "aborted"

\* C12: each execution of Bn254ScalarMulAddSyscall appends exactly one
\* precompile event of variant Bn254ScalarMulAdd to the record under the
\* invoking syscall code, paired with a syscall event that carries the clock
\* read at entry (before the arithmetic event was created), the two syscall
\* arguments and the lookup id of the arithmetic event; it returns None and
\* declares one extra cycle.
C12_ExecuteRecordsOneEvent ==
    [][Returned =>
          LET code == rt.syscall_code
              before == rt.record[code]
              after == rt'.record[code]
              new == after[Len(after)]
          IN  /\ Len(after) = Len(before) + 1
              /\ SubSeq(after, 1, Len(before)) = before
              /\ OtherEntries(rt', code) = OtherEntries(rt, code)
              /\ new.event.variant = "Bn254ScalarMulAdd"
              /\ new.syscall_event.clk = rt.state_clk
              /\ new.event.event.clk = rt.state_clk
              /\ rt'.clk > rt.state_clk
              /\ new.syscall_event.syscall_id = code
              /\ new.syscall_event.arg1 = rt'.arg1
              /\ new.syscall_event.arg2 = rt'.arg2
              /\ new.syscall_event.lookup_id = new.event.event.lookup_id
              /\ rt'.result = Some(None)
              /\ num_extra_cycles = 1
              /\ rt'.state_clk = rt.state_clk + InstructionCycles + 1]_vars

\* two executions returned: the record holds their two events
C12_Witness ==
    /\ rt.pc \in {"running", "finished"}
    /\ rt.calls = 2
    /\ Len(rt.record["BN254_SCALAR_MULADD"]) = 2
    /\ rt.record["BN254_SCALAR_MULADD"][2].syscall_event.clk = InstructionCycles + 1
    /\ rt.result = Some(None)

\* the pointers of every recorded event of an executor state are word aligned
RecordAligned(r) ==
    \A c \in SyscallCodes :
        \A k \in 1..Len(r.record[c]) :
            /\ r.record[c][k].event.event.x_ptr % BYTES_PER_WORD = 0
            /\ r.record[c][k].event.event.y_ptr % BYTES_PER_WORD = 0

\* an ecall with a pointer argument that is not a multiple of 4
MisalignedCall ==
    /\ rt'.calls = rt.calls + 1
    /\ (rt'.arg1 % BYTES_PER_WORD # 0 \/ rt'.arg2 % BYTES_PER_WORD # 0)

\* C13: an invocation with a pointer argument that is not a multiple of 4
\* aborts the execution pass at recording time: no PrecompileEvent is added,
\* no value (result or error) is returned, the pass never continues and its
\* record never reaches the trace builders.
C13_MisalignedPointerAborts ==
    [][/\ MisalignedCall =>
            /\ rt'.pc = "aborted"
            /\ rt'.record = rt.record
            /\ rt'.result = None
       /\ rt.pc = "aborted" => rt' = rt
       /\ rt'.pc = "finished" => RecordAligned(rt')]_vars

\* a second invocation, with a misaligned first argument, has aborted the pass
C13_Witness ==
    /\ rt.pc = "aborted"
    /\ rt.calls = 2
    /\ rt.arg1 = XPtr + 1
    /\ Len(rt.record["BN254_SCALAR_MULADD"]) = 1

-----------------------------------------------------------------------------
-----------------------------------------------------------------------------
\* C15: an integer v below 2^256, encoded as 32 little-endian bytes (8
\* little-endian words, zero padded) and decoded back, is v again; an 8-word
\* array, decoded and encoded again, is the same array.
C15_RoundTrip ==
    codec.pc = "done" =>
        /\ Len(codec.words) = NUM_WORDS_PER_FE
        /\ codec.origin = "value" =>
              /\ Len(codec.bytes) = UINT256_BYTES
              /\ codec.value = codec.value0
        /\ codec.origin = "words" =>
              /\ Len(codec.bytes) = UINT256_BYTES
              /\ codec.words = codec.words0

\* an integer with four words set was encoded as 32 bytes and came back
C15_Witness ==
    /\ codec.pc = "done"
    /\ codec.origin = "value"
    /\ codec.value0 = (WORD_BASE - 1) + (WORD_BASE * WORD_BASE * WORD_BASE) * (1 + WORD_BASE)
    /\ codec.words[1] = WORD_BASE - 1
    /\ codec.words[5] = 1
    /\ codec.bytes[UINT256_BYTES] = 0

-----------------------------------------------------------------------------
\* the outcome is an error value
IsErr(result) == result \in {"Err(PlonkVkeyHashMismatch)", "Err(GeneralError)", "Err(verification)"}

\* C16: PlonkVerifier::verify returns a Result for every input and never
\* panics: Ok only when verification succeeds and an error otherwise;
\* PlonkVkeyHashMismatch whenever the first 4 bytes of the proof differ from
\* the first 4 bytes of SHA-256(plonk_vk); an error value for a proof
\* shorter than 4 bytes and for proof or key bytes that cannot be decoded.
C16_VerifyNeverPanics ==
    plonk.pc = "finished" =>
        LET proof == plonk.proof
            vk == plonk.plonk_vk
        IN  /\ plonk.result # "panic"
            /\ plonk.result = "Ok" \/ IsErr(plonk.result)
            /\ plonk.result = "Ok" =>
                  (proof.body = "valid" /\ vk.decodable /\ plonk.sp1_vkey_hash.decodable)
            /\ (Len(proof.prefix) = VKEY_HASH_PREFIX /\ proof.prefix # Sha256Prefix(vk)) =>
                  plonk.result = "Err(PlonkVkeyHashMismatch)"
            /\ ProofLen(proof) < VKEY_HASH_PREFIX => IsErr(plonk.result)
            /\ (proof.body = "garbage" \/ ~vk.decodable) => IsErr(plonk.result)

-----------------------------------------------------------------------------
\* the residues of the arithmetic constraints the chip's evaluator asserts on a row
ArithResidues(c, local) ==
    CASE c = "Bn254MulAdd" -> Bn254MulAddEvalResidues(local)
      [] c = "Bn254ScalarMulAdd" -> Bn254ScalarMulAddEvalResidues(local)
      [] OTHER -> Bn254ScalarMacEvalResidues(local)

\* the row with the lowest byte of the value written to the destination changed
TamperWritten(c, row) ==
    IF c = "Bn254ScalarMac"
    THEN [row EXCEPT !.arg1_access[1].value[1] = (@ + 1) % BYTE_BASE]
    ELSE [row EXCEPT !.x_memory[1].value[1] = (@ + 1) % BYTE_BASE]

\* the row with the lowest byte of the multiplication witness changed
TamperProduct(c, row) ==
    IF c = "Bn254ScalarMac"
    THEN [row EXCEPT !.mul_eval.result[1] = (@ + 1) % BYTE_BASE]
    ELSE [row EXCEPT !.a_mul_b.result[1] = (@ + 1) % BYTE_BASE]

\* C17: the evaluator of Bn254MulAdd, Bn254ScalarMulAdd and Bn254ScalarMac
\* constrains on every real row the multiplication witness, the addition
\* witness and the written value: the built row passes, a real row whose
\* written value differs from (x + a*b) mod p or whose product witness is not
\* a*b mod p is rejected, and on rows with is_real = 0 the constraints are off.
C17_ArithmeticConstrained ==
    (Done /\ chip \in ArithChips) =>
        \A i \in 1..Len(rows) :
            IF rows[i].is_real = 1
            THEN /\ AllZero(ArithResidues(chip, rows[i]))
                 /\ ~AllZero(ArithResidues(chip, TamperWritten(chip, rows[i])))
                 /\ ~AllZero(ArithResidues(chip, TamperProduct(chip, rows[i])))
            ELSE /\ AllZero(ArithResidues(chip, TamperWritten(chip, rows[i])))
                 /\ AllZero(ArithResidues(chip, TamperProduct(chip, rows[i])))

-----------------------------------------------------------------------------
\* the flag columns of a chip's rows
FlagColumns(c) ==
    IF c \in PoseidonChips
    THEN {"is_real", "is_full_round", "is_memory_op", "is_arithmetic", "is_binary",
          "is_input_op", "is_output_op"}
    ELSE {"is_real"}

\* the matrix m with flag f of row i set to 2
WithFlagTwo(m, i, f) == [m EXCEPT ![i][f] = 2]

\* C18: every chip's evaluator asserts on every row, whatever the row holds,
\* that each flag column is 0 or 1 (is_real for every chip; for the hash chip
\* also is_full_round, is_memory_op, is_arithmetic, is_binary, is_input_op
\* and is_output_op), so a matrix with a flag equal to 2 in a row is rejected
\* at that row.
C18_FlagsAreBoolean ==
    Done =>
        \A i \in 1..Len(rows) :
            /\ FlagColumns(chip) \subseteq BoolAssertions(chip, rows[i])
            /\ \A f \in FlagColumns(chip) : ~EvalRow(chip, WithFlagTwo(rows, i, f), i)

-----------------------------------------------------------------------------
\* the memory-access column groups of a row: the columns and whether the
\* group is the destination write
MemoryGroups(c, row) ==
    CASE c = "Bn254MulAdd" ->
           <<[cols |-> row.x_memory, write |-> TRUE], [cols |-> row.a_memory, write |-> FALSE],
             [cols |-> row.b_memory, write |-> FALSE]>>
      [] c = "Bn254ScalarMulAdd" ->
           <<[cols |-> row.x_memory, write |-> TRUE],
             [cols |-> <<row.a_ptr_memory, row.b_ptr_memory>>, write |-> FALSE],
             [cols |-> row.a_memory, write |-> FALSE], [cols |-> row.b_memory, write |-> FALSE]>>
      [] c = "Bn254ScalarMac" ->
           <<[cols |-> row.arg1_access, write |-> TRUE],
             [cols |-> row.arg2_access, write |-> FALSE],
             [cols |-> row.a_access, write |-> FALSE], [cols |-> row.b_access, write |-> FALSE]>>
      [] OTHER ->
           <<[cols |-> row.dst_access, write |-> TRUE], [cols |-> row.src_access, write |-> FALSE]>>

\* the columns cols are part of what the call slice hands to the primitive
Covers(slice, cols) ==
    \E off \in 0..(Len(slice.memory_access) - Len(cols)) :
        SubSeq(slice.memory_access, off + 1, off + Len(cols)) = cols

\* C19: the evaluator of Bn254MulAdd, Bn254ScalarMulAdd, Bn254ScalarMac and
\* MemCopy hands every memory-access column group of a row to the
\* memory-access primitive, gated by the row's is_real, every source group at
\* timestamp clk and the destination write at clk + 1, so every read of an
\* invocation is ordered before its write.
C19_ReadsAtClkWriteAfter ==
    (Done /\ chip \in ArithChips \cup MemCopyChips) =>
        \A i \in 1..Len(rows) :
            LET groups == MemoryGroups(chip, rows[i])
                calls == EvalAccesses(chip, rows[i])
            IN  /\ \A g \in 1..Len(groups) :
                      \E k \in 1..Len(calls) :
                         /\ Covers(calls[k], groups[g].cols)
                         /\ calls[k].shard = rows[i].shard
                         /\ calls[k].is_real = rows[i].is_real
                         /\ calls[k].clk = IF groups[g].write THEN rows[i].clk + 1
                                           ELSE rows[i].clk
                /\ \A k \in 1..Len(calls) :
                      calls[k].clk \in {rows[i].clk, rows[i].clk + 1}

-----------------------------------------------------------------------------
\* the number of real rows of the finished matrix
RealRows == IF chip \in PoseidonChips THEN RoundsPerEvent * NumEvents ELSE NumEvents

\* every column of a memory-access group is zero
ZeroAccess(cols) ==
    \A k \in 1..Len(cols) :
        /\ cols[k].value = Zeros(BYTES_PER_WORD)
        /\ cols[k].prev_clk = 0
        /\ "prev_value" \in DOMAIN cols[k] => cols[k].prev_value = Zeros(BYTES_PER_WORD)

\* the two field-operation witnesses of a row of an arithmetic chip: Mul, Add
Witnesses(c, row) ==
    IF c = "Bn254ScalarMac" THEN <<row.mul_eval, row.add_eval>>
    ELSE <<row.a_mul_b, row.add_eval>>

\* C20: every padding row of every chip has is_real = 0 and zero shard,
\* clock, pointer and memory-access columns; in the arithmetic chips its
\* witness columns are those computed for the operands (0, 0) for Mul and for
\* Add (result 0, quotient 0); in the hash chip it has is_memory_op = 0 and
\* zero state, ark_state, sbox_state, mix_state and next_state.
C20_PaddingRows ==
    Done =>
        \A i \in (RealRows + 1)..Len(rows) :
            LET row == rows[i]
            IN  /\ row.is_real = 0
                /\ row.shard = 0
                /\ row.clk = 0
                /\ FirstPtr(chip, row) = 0
                /\ SecondPtr(chip, row) = 0
                /\ chip \notin PoseidonChips =>
                      \A g \in 1..Len(MemoryGroups(chip, row)) :
                          ZeroAccess(MemoryGroups(chip, row)[g].cols)
                /\ chip \in ArithChips =>
                      /\ Witnesses(chip, row)[1] = FieldOpPopulate(0, 0, "Mul")
                      /\ Witnesses(chip, row)[2] = FieldOpPopulate(0, 0, "Add")
                      /\ \A w \in 1..2 :
                            /\ BytesToBigUint(Witnesses(chip, row)[w].result) = 0
                            /\ BytesToBigUint(Witnesses(chip, row)[w].carry) = 0
                /\ chip \in PoseidonChips =>
                      /\ row.is_memory_op = 0
                      /\ row.state = Zeros(WIDTH)
                      /\ row.ark_state = Zeros(WIDTH)
                      /\ row.sbox_state = Zeros(WIDTH)
                      /\ row.mix_state = Zeros(WIDTH)
                      /\ row.next_state = Zeros(WIDTH)

\* three multiply-add events were padded to four rows: the last row is padding
C20_Witness ==
    /\ Done
    /\ chip = "Bn254MulAdd"
    /\ NumEvents = 3
    /\ Len(rows) = 4
    /\ rows[3].is_real = 1
    /\ rows[4] = [Bn254MulAddPaddingRow EXCEPT !.nonce = 3]

-----------------------------------------------------------------------------
\* the rows of the rounds of the invocations: the first 65 * NumEvents rows
RoundRows == 1..(RoundsPerEvent * NumEvents)

\* the round (0-based) of the round row i
RoundOf(i) == (i - 1) % RoundsPerEvent

\* C21: on the row written for round r (r in 0..64, whatever the state the
\* round starts from) ark_state[i] = state[i] + round_constants[i] for all i;
\* in a full round sbox_state[i] = ark_state[i]^5 for all i, in a partial round
\* sbox_state[0] = ark_state[0]^5 and sbox_state[i] = ark_state[i] for i >= 1;
\* mix_state[i] is the sum over j of MDS[i][j] * sbox_state[j]; next_state =
\* mix_state: every constraint of eval_state_transition holds on every real row.
C21_StateTransitionHolds ==
    (Done /\ chip \in PoseidonChips) =>
        \A i \in RoundRows :
            LET row == rows[i]
                full == RoundOf(i) < 4 \/ RoundOf(i) >= 61
            IN  /\ row.is_real = 1
                /\ \A k \in 1..WIDTH :
                      /\ row.ark_state[k] = FAdd(row.state[k], row.round_constants[k])
                      /\ row.sbox_state[k] =
                            (IF full \/ k = 1 THEN Sbox(row.ark_state[k]) ELSE row.ark_state[k])
                      /\ row.mix_state[k] = MdsSum(row.sbox_state, k, WIDTH)
                      /\ row.next_state[k] = row.mix_state[k]
                /\ eval_state_transition(row)

\* a finished trace of two invocations in which a full round changes every
\* word through the power map and a partial round passes the words after the
\* first through unchanged, with round constants that are not zero
C21_Witness ==
    /\ Done
    /\ chip \in PoseidonChips
    /\ NumEvents = 2
    /\ rows[1].sbox_state[2] # rows[1].ark_state[2]
    /\ rows[70].sbox_state[1] # rows[70].ark_state[1]
    /\ rows[70].sbox_state[2] = rows[70].ark_state[2]
    /\ rows[70].round_constants[1] # 0
    /\ rows[70].ark_state # rows[70].state
    /\ rows[70].mix_state # rows[70].sbox_state

-----------------------------------------------------------------------------
\* C22: within one invocation the state columns of the row of round r + 1
\* equal the next_state columns of the row of round r, for r in 0..63; and the
\* continuity constraint of the evaluator (local.next_state[i] = next.state[i]
\* on every transition) holds on the whole generated trace, the transition from
\* the last row of an invocation to the first row of the next invocation and to
\* the first padding row included.
C22_StateContinuity ==
    (Done /\ chip \in PoseidonChips) =>
        /\ \A i \in RoundRows :
              RoundOf(i) < LastRound => rows[i + 1].state = rows[i].next_state
        /\ \A i \in 1..(Len(rows) - 1) :
              \A k \in 1..WIDTH : rows[i].next_state[k] = rows[i + 1].state[k]

-----------------------------------------------------------------------------
\* the matrix with the output_value column of row i replaced by v
WithOutputValue(m, i, v) == [m EXCEPT ![i] = [m[i] EXCEPT !.output_value = v]]

\* C23: the row of the last round of an invocation (round_ctr = 64) is the only
\* row with is_output_op = 1 and its output_value column equals next_state[0],
\* the output of the permutation: the output constraint of the evaluator holds
\* on generated traces, and a trace whose declared output differs from the last
\* round's output is rejected.
C23_OutputIsLastState ==
    (Done /\ chip \in PoseidonChips) =>
        \A i \in 1..Len(rows) :
            /\ rows[i].is_output_op = (IF i \in RoundRows /\ RoundOf(i) = LastRound THEN 1 ELSE 0)
            /\ eval_state_update(rows[i], NextRow(rows, i), FALSE)
            /\ (i \in RoundRows /\ RoundOf(i) = LastRound) =>
                  /\ rows[i].output_value = rows[i].next_state[1]
                  /\ ~eval_state_update(
                         WithOutputValue(rows, i, FAdd(rows[i].next_state[1], 1))[i],
                         NextRow(rows, i), FALSE)

-----------------------------------------------------------------------------
\* C24: the round-counter constraints of the evaluator (round_ctr = 0 on the
\* first row; next.round_ctr = round_ctr + 1 on every transition;
\* is_full_round equal to the round-index predicate on every row) hold on every
\* trace the builder generates, for shards with one invocation and with
\* several, and across the padding rows appended after the last invocation.
C24_RoundCounterConstraints ==
    (Done /\ chip \in PoseidonChips /\ NumEvents >= 1) =>
        \A i \in 1..Len(rows) :
            eval_round_constraints(rows[i], NextRow(rows, i), i = 1, i < Len(rows))

-----------------------------------------------------------------------------
\* C25: the state columns of the first row of an invocation (round_ctr = 0)
\* equal the event's input words in all WIDTH = 3 positions: state[i] =
\* input[i] for i = 0, 1, 2.
C25_InitialStateIsInput ==
    (Done /\ chip \in PoseidonChips) =>
        \A e \in 1..NumEvents :
            LET row == rows[(e - 1) * RoundsPerEvent + 1]
            IN  /\ row.round_ctr = 0
                /\ \A k \in 1..WIDTH : row.state[k] = FromCanonical(input.events[e].input[k])

-----------------------------------------------------------------------------
\* the multiset of the elements of a sequence: each element with its number
\* of occurrences
SeqBag(s) == [x \in Range(s) |-> Cardinality({i \in DOMAIN s : s[i] = x})]

\* the concatenation of the sequences of a sequence
RECURSIVE Flatten(_)
Flatten(ss) == IF ss = <<>> THEN <<>> ELSE ss[1] \o Flatten(Tail(ss))

\* the events cut into chunks of k events, the last chunk possibly shorter
ChunksOf(events, k) ==
    [j \in 1..((Len(events) + k - 1) \div k) |->
        SubSeq(events, (j - 1) * k + 1,
               IF j * k < Len(events) THEN j * k ELSE Len(events))]

\* the orders in which n records can be merged
MergeOrders(n) == {p \in [1..n -> 1..n] : \A i, j \in 1..n : p[i] = p[j] => i = j}

\* the byte-lookup events the populate calls of the real rows produce, row
\* after row
RowLookups(events) == Flatten([i \in 1..Len(events) |-> Bn254MulAddRow(events[i]).lookups])

\* C26: in Bn254MulAdd's generate_trace the multiset of byte-lookup events
\* added to the output record equals the union of the events produced while
\* building each real row; it does not depend on how the events are cut into
\* chunks nor on the order in which the records of the chunks are merged.
C26_LookupsAreUnionOfRows ==
    (Done /\ chip = "Bn254MulAdd") =>
        /\ SeqBag(output) = SeqBag(RowLookups(input.events))
        /\ \A p \in MergeOrders(Len(rows_and_records)) :
              SeqBag(Flatten([j \in 1..Len(rows_and_records) |->
                                 rows_and_records[p[j]].records])) = SeqBag(output)
        /\ \A k \in 1..MaxEvents :
              LET chunks == ChunksOf(input.events, k)
              IN  \A p \in MergeOrders(Len(chunks)) :
                      SeqBag(Flatten([j \in 1..Len(chunks) |->
                                         ChunkRowsAndRecords(chunks[p[j]]).records]))
                          = SeqBag(output)

\* a finished trace of three events in three chunks whose records differ, with
\* a byte-lookup event that occurs more than once in the output record
C26_Witness ==
    /\ Done
    /\ chip = "Bn254MulAdd"
    /\ NumEvents = 3
    /\ Len(rows_and_records) = 3
    /\ rows_and_records[1].records # rows_and_records[2].records
    /\ Len(output) = 3 * Len(rows_and_records[1].records)
    /\ \E x \in Range(output) : SeqBag(output)[x] > 1
    /\ Len(ChunksOf(input.events, 2)) = 2

-----------------------------------------------------------------------------
\* the matrix generate_trace of a one-row-per-event chip returns when it runs
\* alone on the shard: the rows of the events, the padding, the nonces
SoloRows(c, in) ==
    LET real == [i \in 1..Len(in.events) |-> EventRow(c, in.events[i]).row]
        padded == pad_rows_fixed(real, PaddingRow(c), fixed_log2_rows(in))
    IN  IF AfterPad(c) = "nonce" THEN WriteNonces(padded) ELSE padded

\* the byte-lookup events a chip running alone adds to the output record
SoloLookups(c, in) ==
    Flatten([i \in 1..Len(in.events) |-> EventRow(c, in.events[i]).lookups])

\* both calls have returned
BothDone == parked # None /\ parked[1].pc = "done" /\ pc = "done"

\* C27: generate_trace of different chips run on the same shard in any order
\* or interleaving gives, for each chip, the trace matrix it gives when the
\* chips run one after the other, and the same final multiset of byte-lookup
\* events in the output record; no chip's trace depends on what another chip
\* appended to the output record.
C27_InterleavingIndependent ==
    BothDone =>
        /\ rows = SoloRows(chip, input)
        /\ parked[1].rows = SoloRows(parked[1].chip, parked[1].input)
        /\ SeqBag(output) =
               SeqBag(SoloLookups(chip, input)
                      \o SoloLookups(parked[1].chip, parked[1].input))

\* both calls have returned after steps that alternated: the output record
\* holds the record of the first chunk of Bn254MulAdd, then the byte-lookup
\* events of the other chip, then the record of the second chunk
C27_Witness ==
    /\ BothDone
    /\ {chip, parked[1].chip} = {"Bn254MulAdd", "MemCopy32"}
    /\ LET mul == IF chip = "Bn254MulAdd" THEN CallLocals ELSE parked[1]
           cpy == IF chip = "Bn254MulAdd" THEN parked[1] ELSE CallLocals
       IN  /\ Len(mul.input.events) = 2
           /\ Len(cpy.input.events) = 2
           /\ output = mul.rows_and_records[1].records
                       \o SoloLookups("MemCopy32", cpy.input)
                       \o mul.rows_and_records[2].records
           /\ output # SoloLookups("Bn254MulAdd", mul.input) \o SoloLookups("MemCopy32", cpy.input)
           /\ mul.rows[2].nonce = 1
           /\ Len(cpy.rows) = 2

-----------------------------------------------------------------------------
\* the rounds of an invocation, 0-based
Rounds == 0..LastRound

\* the rounds that read entry k (0-based) of POSEIDON_ROUND_CONSTANTS
FullRoundsUsing(k) == {r \in Rounds : IsFullRound(r) /\ RcIdx(r) = k}

\* the rounds that read entry k (0-based) of POSEIDON_PARTIAL_CONSTANTS
PartialRoundsUsing(k) == {r \in Rounds : ~IsFullRound(r) /\ PartialIdx(r) = k}

\* the round a builder is about to write reads its constants inside the tables
LookupInBounds ==
    (pc = "events" /\ chip \in PoseidonChips) =>
        IF IsFullRound(round)
        THEN /\ RcIdx(round) = (IF round < 4 THEN round ELSE round - 57)
             /\ RcIdx(round) \in 0..7
             /\ RcIdx(round) + 1 \in DOMAIN POSEIDON_ROUND_CONSTANTS
        ELSE /\ PartialIdx(round) = round - 4
             /\ PartialIdx(round) \in 0..56
             /\ PartialIdx(round) + 1 \in DOMAIN POSEIDON_PARTIAL_CONSTANTS

\* C28: for every round index r in 0..64 the round-constant lookup is in
\* bounds: a full round reads POSEIDON_ROUND_CONSTANTS at r when r < 4 and at
\* r - 57 when r >= 61, within 0..7; a partial round reads
\* POSEIDON_PARTIAL_CONSTANTS at r - 4, within 0..56; and each of the 8
\* full-round constant rows and each of the 57 partial constants is used by
\* exactly one round of an invocation.
C28_ConstantLookups ==
    /\ LookupInBounds
    /\ (Done /\ chip \in PoseidonChips /\ NumEvents >= 1) =>
          /\ Len(POSEIDON_ROUND_CONSTANTS) = 8
          /\ \A k \in 0..(Len(POSEIDON_ROUND_CONSTANTS) - 1) :
                Cardinality(FullRoundsUsing(k)) = 1
          /\ Len(POSEIDON_PARTIAL_CONSTANTS) = 57
          /\ \A k \in 0..(Len(POSEIDON_PARTIAL_CONSTANTS) - 1) :
                Cardinality(PartialRoundsUsing(k)) = 1

-----------------------------------------------------------------------------
\* both builders of the hash chip have returned their matrix for the shard
BothBuilt == Done /\ chip \in PoseidonChips /\ parked # None

\* C29: the two trace builders of the hash chip, MachineAir::generate_trace
\* of mod.rs (which fills rows through populate_trace_row) and
\* PoseidonChip::generate_trace of trace.rs, produce the same matrix for the
\* same shard: the same height and equal values in every column of every row.
C29_BuildersAgree ==
    BothBuilt =>
        /\ parked[1].chip = OtherBuilder(chip)
        /\ parked[1].input = input
        /\ Len(rows) = Len(parked[1].rows)
        /\ \A i \in 1..Len(rows) : rows[i] = parked[1].rows[i]

-----------------------------------------------------------------------------
\* the byte-lookup events the real rows of the shard's events produce; the
\* hash chip's builders push none
EventLookups(c, events) ==
    IF c \in PoseidonChips THEN <<>>
    ELSE Flatten([i \in 1..Len(events) |-> EventRow(c, events[i]).lookups])

\* C30: byte-lookup events are appended to the output record only while real
\* rows are built: the padding step appends nothing, so the byte-lookup events
\* a chip adds for a shard depend only on the shard's events and not on the
\* padded height or the shape hint.
C30_PaddingAddsNoLookups ==
    /\ [][pc = "pad" => output' = output]_vars
    /\ [](Done => SeqBag(output) = SeqBag(EventLookups(chip, input.events)))

\* a finished trace of one event padded to four rows under a shape hint, with
\* the byte-lookup events of the event in the output record
C30_Witness ==
    /\ Done
    /\ chip = "Bn254ScalarMac"
    /\ NumEvents = 1
    /\ input.shape # None
    /\ Len(rows) = 4
    /\ rows[2].is_real = 0
    /\ output # <<>>
    /\ output = EventRow(chip, input.events[1]).lookups















====
